---------------------------- MODULE Spec2Model ----------------------------
(***************************************************************************)
(* fastapi-lambda: the route matcher / dispatcher (router.py), the         *)
(* Dependant graph builder and the dependency resolver (dependencies.py),  *)
(* and the error-handling middleware around them (applications.py,         *)
(* middleware/errors.py, middleware/exceptions.py).                        *)
(*                                                                         *)
(* Strings that the code inspects character by character (request paths,   *)
(* raw parameter values) are sequences of one-character strings.           *)
(***************************************************************************)
EXTENDS Integers, Sequences, FiniteSets, TLC

(***************************************************************************)
(* Bounds of the model.                                                    *)
(***************************************************************************)
\* Number of add_route calls explored.
MaxRoutes == 2
\* Number of events handed to the application.
MaxRequests == 2

\* Python's None, as a value that compares with every other modelled value.
None == [ty |-> "None"]

\* re.match found no match.
NoMatch == [matched |-> FALSE, groups |-> <<>>]

Range(s) == {s[i] : i \in 1..Len(s)}

Drop(s, k) == SubSeq(s, k + 1, Len(s))

Take(s, k) == SubSeq(s, 1, k)

\* dict.get(key): the value stored under key, or None.
DictGet(d, k) == IF k \in DOMAIN d THEN d[k] ELSE None

\* dict.update / d[k] = v for one key.
DictSet(d, k, v) == [x \in (DOMAIN d) \cup {k} |-> IF x = k THEN v ELSE d[x]]

\* dict.update(other): the keys of other win.
DictUpdate(d, o) == [x \in (DOMAIN d) \cup (DOMAIN o) |-> IF x \in DOMAIN o THEN o[x] ELSE d[x]]

EmptyDict == [x \in {} |-> None]

(***************************************************************************)
(* router.py: path convertors and compile_path.                            *)
(***************************************************************************)
DigitChars == <<"0", "1", "2", "3", "4", "5", "6", "7", "8", "9">>

Digits == Range(DigitChars)

DigitVal(c) == (CHOOSE i \in 1..10 : DigitChars[i] = c) - 1

\* CONVERTORS: convertor name -> regex of the convertor class.
CONVERTORS == [str |-> "[^/]+", int |-> "[0-9]+", path |-> ".*"]

\* One character against the character class of a convertor regex.
InClass(regex, c) ==
    CASE regex = "[^/]+" -> c # "/"
      [] regex = "[0-9]+" -> c \in Digits
      [] regex = ".*" -> c # "\n"

\* Least number of characters the quantifier of a convertor regex takes.
MinRepeat(regex) == IF regex = ".*" THEN 0 ELSE 1

Lit(c) == [t |-> "lit", c |-> c, name |-> "", conv |-> ""]

\* A "{name}" (conv = "") or "{name:conv}" placeholder, as PARAM_REGEX finds it.
Par(name, conv) == [t |-> "param", c |-> "", name |-> name, conv |-> conv]

\* Template text as a sequence of literal characters.
Text(s) == [i \in 1..Len(s) |-> Lit(s[i])]

\* match.groups("str") and lstrip(":"): an absent convertor is "str".
ConvertorType(piece) == IF piece.conv = "" THEN "str" ELSE piece.conv

\* The placeholders of a path whose convertor is not in CONVERTORS.
UnknownConvertors(path) ==
    {i \in 1..Len(path) :
        path[i].t = "param" /\ ConvertorType(path[i]) \notin DOMAIN CONVERTORS}

\* Variant: a placeholder with an unknown convertor is taken as a str one.
compile_path_lenient(path) ==
    [raised |-> "", unknown |-> "",
     regex |-> [i \in 1..Len(path) |->
                  IF path[i].t = "param"
                  THEN [t |-> "group", c |-> "", name |-> path[i].name,
                        regex |-> IF ConvertorType(path[i]) \in DOMAIN CONVERTORS
                                  THEN CONVERTORS[ConvertorType(path[i])]
                                  ELSE CONVERTORS["str"]]
                  ELSE [t |-> "lit", c |-> path[i].c, name |-> "", regex |-> ""]],
     convertors |-> [n \in {path[i].name : i \in {j \in 1..Len(path) : path[j].t = "param"}} |->
                       ConvertorType(CHOOSE p \in Range(path) : p.t = "param" /\ p.name = n)]]

\* compile_path: a ValueError naming the first unknown convertor, else the
\* regex (a sequence of escaped literals and named groups) and the
\* convertors by name.
compile_path(path) ==
    IF UnknownConvertors(path) # {}
    THEN [raised |-> "ValueError",
          unknown |-> ConvertorType(path[CHOOSE i \in UnknownConvertors(path) :
                                            \A j \in UnknownConvertors(path) : i <= j]),
          regex |-> <<>>, convertors |-> EmptyDict]
    ELSE [raised |-> "", unknown |-> "",
          regex |-> [i \in 1..Len(path) |->
                       IF path[i].t = "param"
                       THEN [t |-> "group", c |-> "", name |-> path[i].name,
                             regex |-> CONVERTORS[ConvertorType(path[i])]]
                       ELSE [t |-> "lit", c |-> path[i].c, name |-> "", regex |-> ""]],
          convertors |-> [n \in {path[i].name : i \in {j \in 1..Len(path) : path[j].t = "param"}} |->
                            ConvertorType(CHOOSE p \in Range(path) : p.t = "param" /\ p.name = n)]]

\* Length of the longest prefix of s whose characters are all in the class.
RECURSIVE ClassRun(_, _)
ClassRun(regex, s) ==
    IF s = <<>> \/ ~InClass(regex, s[1]) THEN 0 ELSE 1 + ClassRun(regex, Tail(s))

\* "$" of a pattern compiled without flags: the end of the string, or the
\* position before a newline that ends the string.
AtDollar(s) == s = <<>> \/ s = <<"\n">>

\* re.match of "^" regex "$" against s: the groupdict, or NoMatch.  A group
\* is greedy: it takes the longest run that lets the rest of the regex match.
RECURSIVE RegexMatch(_, _)
RegexMatch(regex, s) ==
    IF regex = <<>> THEN (IF AtDollar(s) THEN [matched |-> TRUE, groups |-> EmptyDict] ELSE NoMatch)
    ELSE LET p == regex[1] IN
         IF p.t = "lit"
         THEN IF s # <<>> /\ s[1] = p.c THEN RegexMatch(Tail(regex), Tail(s)) ELSE NoMatch
         ELSE LET ks == {k \in MinRepeat(p.regex)..ClassRun(p.regex, s) :
                            RegexMatch(Tail(regex), Drop(s, k)) # NoMatch}
              IN IF ks = {} THEN NoMatch
                 ELSE LET k == CHOOSE k \in ks : \A j \in ks : j <= k
                      IN [matched |-> TRUE,
                          groups |-> DictSet(RegexMatch(Tail(regex), Drop(s, k)).groups,
                                             p.name, Take(s, k))]

\* int(value) for a string of digits.
RECURSIVE StrToInt(_)
StrToInt(s) == IF s = <<>> THEN 0 ELSE 10 * StrToInt(Take(s, Len(s) - 1)) + DigitVal(s[Len(s)])

\* str(n) for a natural number.
RECURSIVE IntToStr(_)
IntToStr(n) == IF n < 10 THEN <<DigitChars[n + 1]>> ELSE IntToStr(n \div 10) \o <<DigitChars[(n % 10) + 1]>>

\* Python values: an int, a str (its characters), None.
IntV(n) == [ty |-> "int", n |-> n, s |-> <<>>]

StrV(s) == [ty |-> "str", n |-> 0, s |-> s]

\* Convertor.convert of the three convertor classes.
Convert(conv, value) == IF conv = "int" THEN IntV(StrToInt(value)) ELSE StrV(value)

\* str(v) of a converted path parameter (Route.handle's pathParameters).
PyStr(v) == IF v.ty = "int" THEN IntToStr(v.n) ELSE v.s


(***************************************************************************)
(* The user program: the callables that routes and Depends() markers name. *)
(* A callable has a shape (what inspect reports for it), a parameter list  *)
(* and a behaviour.  A parameter is a Depends()/Security() marker, a       *)
(* field, or the LambdaRequest to inject.                                  *)
(***************************************************************************)
\* Depends(dependency, use_cache=...).
Depends(name, dependency, use_cache) ==
    [kind |-> "depends", name |-> name, dependency |-> dependency, use_cache |-> use_cache,
     security |-> FALSE, scopes |-> <<>>, annotation |-> ""]

\* A parameter declared `name: LambdaRequest = Depends(dependency)`.
RequestDepends(name, dependency) ==
    [kind |-> "depends", name |-> name, dependency |-> dependency, use_cache |-> TRUE,
     security |-> FALSE, scopes |-> <<>>, annotation |-> "LambdaRequest"]

\* Security(dependency, scopes=..., use_cache=...).
Security(name, dependency, scopes, use_cache) ==
    [kind |-> "depends", name |-> name, dependency |-> dependency, use_cache |-> use_cache,
     security |-> TRUE, scopes |-> scopes, annotation |-> ""]

\* A parameter that analyze_param turns into a ModelField: its location,
\* alias, declared type, whether it is required, and its default otherwise.
Field(name, in_, alias, type_, required, default) ==
    [kind |-> "field", name |-> name, in_ |-> in_, alias |-> alias, type_ |-> type_,
     required |-> required, default |-> default, model_fields |-> <<>>, embed |-> FALSE,
     default_factory |-> ""]

\* A body parameter declared with Body(embed=True).
Embedded(field) == [field EXCEPT !.embed = TRUE]

\* A parameter declared with default_factory=...: not required, and its
\* default is what a call of the factory returns.
FactoryField(name, in_, alias, type_, default_factory) ==
    [kind |-> "field", name |-> name, in_ |-> in_, alias |-> alias, type_ |-> type_,
     required |-> FALSE, default |-> None, model_fields |-> <<>>, embed |-> FALSE,
     default_factory |-> default_factory]

\* A parameter whose declared type is a pydantic BaseModel with these fields.
ModelParam(name, in_, alias, required, default, model_fields) ==
    [kind |-> "field", name |-> name, in_ |-> in_, alias |-> alias, type_ |-> "model",
     required |-> required, default |-> default, model_fields |-> model_fields,
     embed |-> FALSE, default_factory |-> ""]

\* A parameter annotated LambdaRequest.
RequestParam(name) == [kind |-> "request", name |-> name]

\* shape: what inspect reports ("coroutine": async def; "asyncgen": async def
\* with yield; "syncgen": def with yield; "class"; "function": def).
\* returns: "counter" (the result is the number of calls made so far, as the
\* call_count closures of tests/test_dependencies.py) or "pure" (the result is
\* a function of the arguments).  raises: the exceptions a call may raise.
Callable(shape, params, returns, raises, is_security) ==
    [shape |-> shape, params |-> params, returns |-> returns, raises |-> raises,
     is_security |-> is_security, mutates |-> {}]

\* A callable that appends an item to the lists it is given under these
\* parameter names.
Mutating(callable, names) == [callable EXCEPT !.mutates = names]

Callables ==
    [ get_value |-> Callable("coroutine", <<>>, "counter", {}, FALSE),
      dep1 |-> Callable("coroutine", <<Depends("value", "get_value", TRUE)>>, "pure", {}, FALSE),
      dep2 |-> Callable("coroutine", <<Depends("value", "get_value", TRUE)>>, "pure", {}, FALSE),
      root |-> Callable("coroutine",
                 <<Depends("v1", "dep1", TRUE), Depends("v2", "dep2", TRUE)>>, "pure", {}, FALSE),
      get_count |-> Callable("coroutine", <<>>, "counter", {}, FALSE),
      no_cache |-> Callable("coroutine",
                 <<Depends("v1", "get_count", FALSE), Depends("v2", "get_count", FALSE)>>,
                 "pure", {}, FALSE),
      get_db |-> Callable("asyncgen", <<>>, "pure", {}, FALSE),
      common |-> Callable("coroutine",
                 <<Field("q", "query", "q", "int", TRUE, None)>>, "pure", {}, FALSE),
      search |-> Callable("function",
                 <<Depends("a", "common", TRUE), Depends("db", "get_db", TRUE),
                   Depends("b", "common", TRUE),
                   Field("x_token", "header", "x-token", "str", TRUE, None)>>,
                 "pure", {}, FALSE),
      MyClass |-> Callable("class",
                 <<Field("q", "query", "q", "int", TRUE, None)>>, "pure", {}, FALSE),
      use_class |-> Callable("coroutine",
                 <<Depends("db", "get_db", TRUE), Depends("obj", "MyClass", TRUE)>>,
                 "pure", {}, FALSE),
      sync_gen |-> Callable("syncgen", <<>>, "pure", {}, FALSE),
      use_sync_gen |-> Callable("coroutine",
                 <<Depends("value", "sync_gen", TRUE), RequestParam("request")>>, "pure", {}, FALSE),
      bearer |-> Callable("coroutine", <<RequestParam("request")>>, "pure", {"HTTPException"}, TRUE),
      http_bearer |-> Callable("coroutine", <<RequestParam("request")>>, "pure",
                 {"HTTPException"}, TRUE),
      fresh |-> Callable("coroutine", <<>>, "pure", {"HTTPException"}, FALSE),
      protected |-> Callable("coroutine",
                 <<Depends("db", "get_db", TRUE), Depends("credentials", "http_bearer", TRUE),
                   Depends("value", "get_value", TRUE)>>, "pure", {}, FALSE),
      conditional |-> Callable("coroutine",
                 <<Depends("tag", "fresh", TRUE), Depends("value", "get_value", TRUE)>>,
                 "pure", {}, FALSE),
      session |-> Callable("asyncgen", <<Depends("db", "get_db", FALSE)>>, "pure", {}, FALSE),
      twice |-> Callable("coroutine",
                 <<Depends("s1", "session", TRUE), Depends("s2", "session", TRUE)>>,
                 "pure", {}, FALSE),
      me |-> Callable("coroutine",
                 <<Depends("s", "session", TRUE), Depends("user", "bearer", TRUE),
                   Depends("db", "get_db", FALSE)>>, "pure", {"Exception"}, FALSE),
      get_item |-> Callable("coroutine",
                 <<Field("item_id", "query", "item_id", "int", TRUE, None),
                   Field("limit", "query", "limit", "int", FALSE, IntV(10))>>, "pure", {}, FALSE),
      list_items |-> Callable("coroutine",
                 <<Field("q", "query", "q", "int", TRUE, None),
                   Field("limit", "query", "limit", "int", FALSE, IntV(10))>>, "pure", {}, FALSE),
      find |-> Callable("coroutine",
                 <<Depends("db", "get_db", TRUE),
                   Field("term", "query", "t", "str", FALSE, StrV(<<"d">>)),
                   Field("x_token", "header", "x-token", "str", TRUE, None)>>, "pure", {}, FALSE),
      create_items |-> Mutating(Callable("coroutine",
                 <<FactoryField("tags", "body", "tags", "list", "list")>>, "pure", {}, FALSE),
                 {"tags"}),
      authz |-> Callable("coroutine", <<>>, "counter", {}, FALSE),
      scoped |-> Callable("coroutine",
                 <<Security("a", "authz", <<"read">>, TRUE),
                   Security("b", "authz", <<"write">>, TRUE),
                   Depends("db", "get_db", TRUE)>>, "pure", {}, FALSE),
      same_scopes |-> Callable("coroutine",
                 <<Security("a", "authz", <<"read", "write">>, TRUE),
                   Security("b", "authz", <<"write", "read", "read">>, TRUE)>>,
                 "pure", {}, FALSE),
      guard |-> Callable("coroutine",
                 <<Security("first", "authz", <<"read", "write">>, TRUE),
                   Security("second", "authz", <<"read">>, TRUE)>>, "pure", {}, FALSE),
      nested |-> Callable("coroutine",
                 <<Security("g", "guard", <<"admin">>, TRUE)>>, "pure", {}, FALSE),
      secured |-> Callable("coroutine",
                 <<Security("tok", "bearer", <<"read">>, TRUE)>>, "pure", {}, FALSE),
      mixed |-> Callable("coroutine",
                 <<Depends("a", "get_count", FALSE), Depends("b", "get_count", TRUE)>>,
                 "pure", {}, FALSE),
      audit |-> Callable("coroutine",
                 <<Field("meta", "body", "meta", "int", TRUE, None)>>, "pure", {}, FALSE),
      one_body |-> Callable("coroutine",
                 <<Field("item", "body", "item", "int", TRUE, None)>>, "pure", {}, FALSE),
      two_body |-> Callable("coroutine",
                 <<Field("item", "body", "item", "int", TRUE, None),
                   Field("meta", "body", "meta", "int", TRUE, None)>>, "pure", {}, FALSE),
      embed_body |-> Callable("coroutine",
                 <<Embedded(Field("item", "body", "item", "int", TRUE, None))>>,
                 "pure", {}, FALSE),
      opt_body |-> Callable("coroutine",
                 <<Field("item", "body", "item", "int", FALSE, IntV(0))>>, "pure", {}, FALSE),
      dep_body |-> Callable("coroutine",
                 <<Depends("audit", "audit", TRUE), Depends("db", "get_db", TRUE),
                   Field("item", "body", "item", "int", TRUE, None)>>, "pure", {}, FALSE),
      traced |-> Callable("coroutine",
                 <<Field("x_trace", "header", "X-Trace", "str", TRUE, None)>>,
                 "pure", {}, FALSE),
      custom_response |-> Callable("coroutine",
                 <<Depends("db", "get_db", TRUE)>>, "response", {}, FALSE),
      widget |-> Callable("coroutine", <<Depends("db", "get_db", TRUE)>>, "dict", {}, FALSE),
      partial_widget |-> Callable("coroutine",
                 <<Depends("db", "get_db", TRUE)>>, "partial", {}, FALSE),
      get_req |-> Callable("coroutine", <<>>, "pure", {}, FALSE),
      whoami |-> Callable("coroutine",
                 <<RequestDepends("req", "get_req"), Depends("db", "get_db", TRUE)>>,
                 "pure", {}, FALSE),
      ping |-> Callable("coroutine", <<>>, "pure", {}, FALSE),
      pong |-> Callable("function", <<>>, "pure", {}, FALSE) ]

(***************************************************************************)
(* dependencies.py: the Dependant graph builder.  The security_scopes      *)
(* lists are Python list objects that the builder passes on and extends in *)
(* place, so the builder works on a heap of lists: a reference is an index *)
(* into the heap, 0 is None.                                               *)
(***************************************************************************)
\* The scope names in sorted() order.
ScopeOrder == <<"admin", "read", "write">>

\* tuple(sorted(set(scopes))).
SortedUnique(scopes) == SelectSeq(ScopeOrder, LAMBDA x : x \in Range(scopes))

\* A list reference read as `security_scopes or []`.
Deref(heap, ref) == IF ref = 0 THEN <<>> ELSE heap[ref]

\* Dependant.__post_init__: (call, tuple(sorted(set(security_scopes or [])))).
CacheKey(call, scopes) == <<call, SortedUnique(scopes)>>

\* get_path_param_names: the placeholder names of a path template.
get_path_param_names(path) == {path[i].name : i \in {j \in 1..Len(path) : path[j].t = "param"}}

\* analyze_param for a field parameter: a parameter named like a placeholder
\* of the path is a required Path field, whatever else it would have been.
analyze_param(p, is_path_param) ==
    IF p.kind = "depends"
    THEN IF p.annotation = "LambdaRequest" THEN RequestParam(p.name) ELSE p
    ELSE IF p.kind = "request" THEN p
    ELSE IF is_path_param THEN [p EXCEPT !.in_ = "path", !.required = TRUE] ELSE p

\* The ModelField lists of a Dependant (add_param_to_fields, body_params).
FieldsIn(params, names, in_) ==
    LET fields == SelectSeq(params, LAMBDA p : p.kind = "field")
        analyzed == [i \in 1..Len(fields) |-> analyze_param(fields[i], fields[i].name \in names)]
    IN SelectSeq(analyzed, LAMBDA f : f.in_ = in_)

RECURSIVE get_dependant(_, _, _, _, _, _)
RECURSIVE get_sub_dependants(_, _, _, _, _)

\* get_sub_dependant (through get_param_sub_dependant): `security_scopes or
\* []` keeps a non-empty list object and replaces None or an empty list by a
\* new one; Security() scopes are appended to that object in place.
get_sub_dependant(depends, path, scopes_ref, heap) ==
    LET fresh == scopes_ref = 0 \/ heap[scopes_ref] = <<>>
        ref == IF fresh THEN Len(heap) + 1 ELSE scopes_ref
        heap1 == IF fresh THEN Append(heap, <<>>) ELSE heap
        heap2 == IF depends.security
                 THEN [heap1 EXCEPT ![ref] = @ \o depends.scopes]
                 ELSE heap1
        built == get_dependant(path, depends.dependency, depends.name, ref, depends.use_cache, heap2)
    IN [node |-> [built.node EXCEPT !.security_requirements =
                     IF Callables[depends.dependency].is_security
                     THEN Append(@, [security_scheme |-> depends.dependency, scopes |-> <<>>])
                     ELSE @],
        heap |-> built.heap]

\* The loop of get_dependant over the parameters from index i on: the
\* Dependants of the Depends parameters, in declaration order.
get_sub_dependants(params, i, path, scopes_ref, heap) ==
    IF i > Len(params) THEN [nodes |-> <<>>, heap |-> heap]
    ELSE IF params[i].kind # "depends" THEN get_sub_dependants(params, i + 1, path, scopes_ref, heap)
    ELSE LET sub == get_sub_dependant(params[i], path, scopes_ref, heap)
             rest == get_sub_dependants(params, i + 1, path, scopes_ref, sub.heap)
         IN [nodes |-> <<sub.node>> \o rest.nodes, heap |-> rest.heap]

\* get_dependant: the Dependant of one callable.  cache_key is computed when
\* the Dependant is created, before the parameters are walked.
get_dependant(path, call, name, scopes_ref, use_cache, heap) ==
    LET names == get_path_param_names(path)
        params == [i \in 1..Len(Callables[call].params) |->
                      analyze_param(Callables[call].params[i],
                                    Callables[call].params[i].name \in names)]
        subs == get_sub_dependants(params, 1, path, scopes_ref, heap)
    IN [node |-> [call |-> call, name |-> name, use_cache |-> use_cache,
                  security_scopes |-> scopes_ref,
                  cache_key |-> CacheKey(call, Deref(heap, scopes_ref)),
                  path_params |-> FieldsIn(params, names, "path"),
                  query_params |-> FieldsIn(params, names, "query"),
                  header_params |-> FieldsIn(params, names, "header"),
                  body_params |-> FieldsIn(params, names, "body"),
                  request_params |-> {p.name : p \in {x \in Range(params) : x.kind = "request"}},
                  dependencies |-> subs.nodes,
                  security_requirements |-> <<>>],
        heap |-> subs.heap]

\* A built tree with every list reference replaced by the list's content.
RECURSIVE Resolved(_, _)
Resolved(node, heap) ==
    [node EXCEPT !.security_scopes = Deref(heap, @),
                 !.dependencies = [i \in 1..Len(@) |-> Resolved(@[i], heap)]]

\* Route.__init__: self.dependant = get_dependant(path=path, call=endpoint).
RouteDependant(path, endpoint) ==
    LET built == get_dependant(path, endpoint, "", 0, TRUE, <<>>)
    IN Resolved(built.node, built.heap)

(***************************************************************************)
(* dependencies.py and _compat.py: extraction and validation of fields.    *)
(***************************************************************************)
DictV(d) == [ty |-> "dict", d |-> d]

IsNone(v) == v.ty = "None"

\* bool(v) of a value that request dicts hold.
Truthy(v) ==
    CASE v.ty = "None" -> FALSE
      [] v.ty = "str" -> v.s # <<>>
      [] v.ty = "int" -> v.n # 0
      [] OTHER -> TRUE

\* Python's `a or b`.
PyOr(a, b) == IF Truthy(a) THEN a ELSE b

\* get_missing_field_error(loc).
get_missing_field_error(loc) == [type |-> "missing", loc |-> loc]

IsDigits(s) == s # <<>> /\ \A i \in 1..Len(s) : s[i] \in Digits

\* The validation capability (pydantic's TypeAdapter.validate_python) for the
\* scalar types: the validated value, or one error tagged loc.
ValidateScalar(type_, value, loc) ==
    CASE type_ = "int" /\ value.ty = "int" -> [v |-> value, errors |-> <<>>]
      [] type_ = "int" /\ value.ty = "str" /\ IsDigits(value.s) ->
            [v |-> IntV(StrToInt(value.s)), errors |-> <<>>]
      [] type_ = "int" /\ value.ty = "str" ->
            [v |-> None, errors |-> <<[type |-> "int_parsing", loc |-> loc]>>]
      [] type_ = "int" -> [v |-> None, errors |-> <<[type |-> "int_type", loc |-> loc]>>]
      [] type_ = "str" /\ value.ty = "str" -> [v |-> value, errors |-> <<>>]
      [] type_ = "list" /\ value.ty = "list" -> [v |-> value, errors |-> <<>>]
      [] type_ = "list" -> [v |-> None, errors |-> <<[type |-> "list_type", loc |-> loc]>>]
      [] OTHER -> [v |-> None, errors |-> <<[type |-> "string_type", loc |-> loc]>>]

\* The validation of the fields of a model from index i on against a dict.
RECURSIVE ValidateModelFields(_, _, _, _)
ValidateModelFields(model_fields, i, d, loc) ==
    IF i > Len(model_fields) THEN [attrs |-> EmptyDict, errors |-> <<>>]
    ELSE LET f == model_fields[i]
             rest == ValidateModelFields(model_fields, i + 1, d, loc)
             one == IF f.alias \in DOMAIN d
                    THEN ValidateScalar(f.type_, d[f.alias], Append(loc, f.alias))
                    ELSE IF f.required
                    THEN [v |-> None, errors |-> <<get_missing_field_error(Append(loc, f.alias))>>]
                    ELSE [v |-> f.default, errors |-> <<>>]
         IN [attrs |-> IF one.errors = <<>> THEN DictSet(rest.attrs, f.name, one.v) ELSE rest.attrs,
             errors |-> one.errors \o rest.errors]

\* ModelField.validate: (value, None) or (None, the errors with loc prefixed).
ModelField_validate(field, value, loc) ==
    IF field.type_ # "model" THEN ValidateScalar(field.type_, value, loc)
    ELSE IF value.ty # "dict"
    THEN [v |-> None, errors |-> <<[type |-> "model_attributes_type", loc |-> loc]>>]
    ELSE LET r == ValidateModelFields(field.model_fields, 1, value.d, loc)
         IN IF r.errors = <<>> THEN [v |-> [ty |-> "model", d |-> r.attrs], errors |-> <<>>]
            ELSE [v |-> None, errors |-> r.errors]

\* A list object: its identity (0 for a list that belongs to the request's
\* own data) and its items when the value was handed over.
ListV(id, items) == [ty |-> "list", id |-> id, items |-> items]

\* The object a call of a default factory returns, before it has an identity.
NewObject(factory) == [ty |-> "new", factory |-> factory]

\* ModelField.get_default for a field that is not required:
\* FieldInfo.get_default(call_default_factory=True).
get_default(field) ==
    IF field.default_factory # "" THEN NewObject(field.default_factory) ELSE field.default

\* Variant: an absent value is always answered with the default.
validate_value_never_missing(field, value, loc) ==
    IF IsNone(value)
    THEN [v |-> get_default(field), errors |-> <<>>]
    ELSE ModelField_validate(field, value, loc)

\* _validate_value_with_model_field.
validate_value_with_model_field(field, value, loc) ==
    IF IsNone(value)
    THEN IF field.required
         THEN [v |-> None, errors |-> <<get_missing_field_error(loc)>>]
         ELSE [v |-> get_default(field), errors |-> <<>>]
    ELSE ModelField_validate(field, value, loc)

\* received_params.get(alias) or received_params.get(field.name).
ReceivedValue(field, received_params) ==
    PyOr(DictGet(received_params, field.alias), DictGet(received_params, field.name))

\* extract_params_from_dict, the loop "Validate each field" from index i on.
RECURSIVE ExtractEach(_, _, _, _, _)
ExtractEach(fields, i, received_params, values, errors) ==
    IF i > Len(fields) THEN [values |-> values, errors |-> errors]
    ELSE LET field == fields[i]
             r == validate_value_with_model_field(
                      field, ReceivedValue(field, received_params), <<field.in_, field.alias>>)
         IN IF r.errors # <<>>
            THEN ExtractEach(fields, i + 1, received_params, values, errors \o r.errors)
            ELSE ExtractEach(fields, i + 1, received_params,
                             DictSet(values, field.name, r.v), errors)

\* extract_params_from_dict.  A single field of a BaseModel type takes the
\* model's own fields from the raw dict and is validated as one value.
extract_params_from_dict(fields, received_params) ==
    IF fields = <<>> THEN [values |-> EmptyDict, errors |-> <<>>]
    ELSE IF Len(fields) = 1 /\ fields[1].type_ = "model"
    THEN LET first_field == fields[1]
             to_extract == first_field.model_fields
             present == {i \in 1..Len(to_extract) :
                            ~IsNone(ReceivedValue(to_extract[i], received_params))}
             params_to_process ==
                 [n \in {to_extract[i].name : i \in present} |->
                     ReceivedValue(CHOOSE f \in Range(to_extract) : f.name = n, received_params)]
             r == validate_value_with_model_field(
                      first_field, DictV(params_to_process), <<first_field.in_>>)
         IN [values |-> DictSet(EmptyDict, first_field.name, r.v), errors |-> r.errors]
    ELSE ExtractEach(fields, 1, received_params, EmptyDict, <<>>)

\* _should_embed_body_fields.
should_embed_body_fields(fields) ==
    IF fields = <<>> THEN FALSE
    ELSE Cardinality({fields[i].name : i \in 1..Len(fields)}) > 1 \/ fields[1].embed

\* extract_body_params, the loop over several body fields from index i on.
RECURSIVE ExtractBodyEach(_, _, _, _, _)
ExtractBodyEach(body_fields, i, received_body, values, errors) ==
    IF i > Len(body_fields) THEN [values |-> values, errors |-> errors]
    ELSE LET field == body_fields[i]
             loc == <<"body", field.alias>>
         IN IF ~IsNone(received_body) /\ received_body.ty # "dict"
            THEN ExtractBodyEach(body_fields, i + 1, received_body, values,
                                 Append(errors, get_missing_field_error(loc)))
            ELSE LET value == IF IsNone(received_body) THEN None
                              ELSE DictGet(received_body.d, field.alias)
                     r == validate_value_with_model_field(field, value, loc)
                 IN IF r.errors # <<>>
                    THEN ExtractBodyEach(body_fields, i + 1, received_body, values,
                                         errors \o r.errors)
                    ELSE ExtractBodyEach(body_fields, i + 1, received_body,
                                         DictSet(values, field.name, r.v), errors)

\* extract_body_params.
extract_body_params(body_fields, received_body) ==
    IF Len(body_fields) = 1 /\ ~should_embed_body_fields(body_fields)
    THEN LET r == validate_value_with_model_field(body_fields[1], received_body, <<"body">>)
         IN [values |-> DictSet(EmptyDict, body_fields[1].name, r.v), errors |-> r.errors]
    ELSE ExtractBodyEach(body_fields, 1, received_body, EmptyDict, <<>>)

(***************************************************************************)
(* requests.py: LambdaRequest over an API Gateway event.                   *)
(***************************************************************************)
\* str.upper() on the method names the model uses.
Upper(m) ==
    CASE m = "get" -> "GET"
      [] m = "post" -> "POST"
      [] OTHER -> m

\* str.lower() on the header names the model uses.
Lower(k) ==
    CASE k = "X-Token" -> "x-token"
      [] k = "Authorization" -> "authorization"
      [] k = "Bearer" -> "bearer"
      [] k = "Basic" -> "basic"
      [] k \in {"X-Trace", "X-TRACE"} -> "x-trace"
      [] OTHER -> k

\* event["body"]: no body, text that is not JSON, or JSON text and its value.
NoBody == [text |-> "empty", json |-> None]

InvalidBody == [text |-> "invalid", json |-> None]

JsonBody(v) == [text |-> "json", json |-> v]

\* LambdaRequest.method.
Request_method(event) == Upper(event.httpMethod)

\* LambdaRequest.headers: the header names lowercased.
Request_headers(event) ==
    [k \in {Lower(x) : x \in DOMAIN event.headers} |->
        event.headers[CHOOSE x \in DOMAIN event.headers : Lower(x) = k]]

\* LambdaRequest.query_params (API Gateway v1 events).
Request_query_params(event) == event.queryStringParameters

\* Variant: text that is not JSON reaches resolution as a string.
HandleBodyKeepsText(event) ==
    IF Request_method(event) \in {"POST", "PUT", "PATCH"} /\ event.body.text # "empty"
    THEN IF event.body.text = "json" THEN event.body.json ELSE StrV(<<"x">>)
    ELSE None

\* Variant: the body is parsed whatever the method is.
HandleBodyAnyMethod(event) ==
    IF event.body.text = "json" THEN event.body.json ELSE None

\* The body as Route.handle reads it: request.json() for POST, PUT and
\* PATCH, None when the body is empty or json.loads raises.
HandleBody(event) ==
    IF Request_method(event) \in {"POST", "PUT", "PATCH"} /\ event.body.text = "json"
    THEN event.body.json
    ELSE None

(***************************************************************************)
(* router.py: Route and LambdaRouter.                                      *)
(***************************************************************************)
\* Route.__init__ for a path that compiles.
Route(path, endpoint, methods, response_model) ==
    [path |-> path, endpoint |-> endpoint,
     response_model |-> response_model,
     response_field |-> IF IsNone(response_model) THEN None
                        ELSE ModelParam("Response", "response", "Response", TRUE, None,
                                        response_model.fields),
     methods |-> {Upper(m) : m \in methods},
     path_regex |-> compile_path(path).regex,
     path_convertors |-> compile_path(path).convertors,
     is_async |-> Callables[endpoint].shape = "coroutine",
     dependant |-> RouteDependant(path, endpoint)]

\* Route.matches: None, or the converted path parameters.
Route_matches(route, method, path) ==
    IF Upper(method) \notin route.methods THEN [matched |-> FALSE, path_params |-> EmptyDict]
    ELSE LET m == RegexMatch(route.path_regex, path)
         IN IF ~m.matched THEN [matched |-> FALSE, path_params |-> EmptyDict]
            ELSE [matched |-> TRUE,
                  path_params |-> [n \in DOMAIN m.groups |->
                                      Convert(route.path_convertors[n], m.groups[n])]]

\* LambdaRouter.route: the index of the route that handles the request,
\* 0 when the loop ends without a match.
MatchingRoutes(rs, method, path) ==
    {i \in 1..Len(rs) : Route_matches(rs[i], method, path).matched}

\* Variant: the last matching route handles the request.
RouteIndexLast(rs, method, path) ==
    IF MatchingRoutes(rs, method, path) = {} THEN 0
    ELSE CHOOSE i \in MatchingRoutes(rs, method, path) :
            \A j \in MatchingRoutes(rs, method, path) : j <= i

RouteIndex(rs, method, path) ==
    IF MatchingRoutes(rs, method, path) = {} THEN 0
    ELSE CHOOSE i \in MatchingRoutes(rs, method, path) :
            \A j \in MatchingRoutes(rs, method, path) : i <= j

(***************************************************************************)
(* Responses and the middleware of applications.py.                        *)
(***************************************************************************)
\* LambdaResponse(content, status_code, headers).
LambdaResponse(content, status_code, headers) ==
    [status_code |-> status_code, content |-> content, headers |-> headers]

\* JSONResponse(content, status_code): media_type application/json sets the
\* Content-Type header.
JSONResponse(content, status_code) ==
    LambdaResponse(content, status_code, "Content-Type" :> "application/json")

\* The content {"detail": ...}: a message, or a list of validation errors.
DetailText(text) == [detail |-> [ty |-> "text", text |-> text, errors |-> <<>>]]

\* Variant: only the first error is reported.
DetailFirstError(errors) == [detail |-> [ty |-> "errors", text |-> "", errors |-> <<errors[1]>>]]

DetailErrors(errors) == [detail |-> [ty |-> "errors", text |-> "", errors |-> errors]]

NoResponse == [status_code |-> 0, content |-> None, headers |-> EmptyDict]

\* What a layer hands to the layer around it: a response or an exception.
Returned(response) == [raised |-> FALSE, exc |-> [type |-> "", detail |-> None], response |-> response]

Raised(type, detail) == [raised |-> TRUE, exc |-> [type |-> type, detail |-> detail], response |-> NoResponse]

NoOutcome == Returned(NoResponse)

\* RequestValidationError(errors): errors() gives the errors back.
RequestValidationError(errors) == Raised("RequestValidationError", [ty |-> "errors", errors |-> errors])

\* HTTPException(status_code, detail).
HTTPException(status_code, detail) ==
    Raised("HTTPException", [ty |-> "http", status_code |-> status_code, detail |-> detail])

\* ExceptionMiddleware._http_exception_handler: no body for 204 and 304.
http_exception_handler(exc) ==
    IF exc.detail.status_code \in {204, 304}
    THEN LambdaResponse(StrV(<<>>), exc.detail.status_code, EmptyDict)
    ELSE JSONResponse(DetailText(exc.detail.detail), exc.detail.status_code)

\* Variant: HTTPException has no handler and is raised again.
ExceptionMiddlewareWithoutHttp(out) ==
    IF ~out.raised THEN out
    ELSE IF out.exc.type = "RequestValidationError"
    THEN Returned(JSONResponse(DetailErrors(out.exc.detail.errors), 422))
    ELSE out

\* ExceptionMiddleware.__call__: HTTPException and RequestValidationError
\* become responses, every other exception is raised again.
ExceptionMiddleware(out) ==
    IF ~out.raised THEN out
    ELSE IF out.exc.type = "HTTPException"
    THEN Returned(http_exception_handler(out.exc))
    ELSE IF out.exc.type = "RequestValidationError"
    THEN Returned(JSONResponse(DetailErrors(out.exc.detail.errors), 422))
    ELSE out

\* FastAPI(debug=...), handed to ServerErrorMiddleware when the stack is built.
VARIABLE debug

\* ServerErrorMiddleware._debug_response: str(exc) and the name of its type
\* (the traceback names the same call).
debug_response(exc) ==
    JSONResponse([detail |-> exc.detail, type |-> exc.type, traceback |-> exc.detail], 500)

\* ServerErrorMiddleware._error_response.
error_response(exc) == JSONResponse(DetailText("Internal Server Error"), 500)

\* Variant: the detailed response is given whatever the mode is.
ServerErrorMiddlewareVerbose(out) ==
    IF ~out.raised THEN out ELSE Returned(debug_response(out.exc))

\* ServerErrorMiddleware.__call__ with no custom handler.
ServerErrorMiddleware(out) ==
    IF ~out.raised THEN out
    ELSE IF debug THEN Returned(debug_response(out.exc))
    ELSE Returned(error_response(out.exc))

\* FastAPI.__call__: the middleware stack around the router.
MiddlewareStack(out) == ServerErrorMiddleware(ExceptionMiddleware(out))

(***************************************************************************)
(* The application state.                                                  *)
(***************************************************************************)
VARIABLES
    routes,     \* LambdaRouter.routes, in registration order
    counters,   \* the closure state of the "counter" callables: calls so far
    nreq,       \* events handed to the application so far
    req,        \* per handler slot: the request in flight, or the last one
    registration, \* the exception the last add_route or add_middleware call raised, if any
    objects,    \* the list objects made by default factories: their items
    user_middleware,  \* FastAPI.user_middleware: the user layers, outermost first
    middleware_stack  \* FastAPI._middleware_stack: the layers it was built from

vars == <<routes, counters, nreq, req, registration, objects, debug, user_middleware,
          middleware_stack>>

\* The exceptions of registration: ValueError(f"Unknown path convertor '{arg}'").
NoError == [type |-> "", message |-> "", arg |-> ""]

ValueError(message, arg) == [type |-> "ValueError", message |-> message, arg |-> arg]

RuntimeError(message) == [type |-> "RuntimeError", message |-> message, arg |-> ""]

\* Number of add_middleware calls.
MaxMiddleware == 2

\* The middleware classes of the application: the first two pass every
\* request on, AuthMiddleware answers 401 itself when the request has no
\* Authorization header.
UserMiddleware == {"RequestIDMiddleware", "LoggingMiddleware", "AuthMiddleware"}

\* "self._middleware_stack = None".
NoStack == [built |-> FALSE, layers |-> <<>>]

\* Variant: list.append.
ListAppend(list, x) == Append(list, x)

\* list.insert(0, x).
ListInsert0(list, x) == <<x>> \o list

\* FastAPI.build_middleware_stack: the layers in the order they are
\* entered, the router being wrapped by the last, then by the one before,
\* and so on ("for cls, args, kwargs in reversed(middleware)").
build_middleware_stack(middleware) ==
    [built |-> TRUE,
     layers |-> middleware \o <<"ServerErrorMiddleware", "ExceptionMiddleware">>]

\* The user layers of a built stack, outermost first.
UserLayers(stack) == SubSeq(stack.layers, 1, Len(stack.layers) - 2)

\* The slots in which FastAPI.__call__ coroutines run.
Slots == {1, 2}

CounterCallables == {c \in DOMAIN Callables : Callables[c].returns = "counter"}

NoEvent ==
    [httpMethod |-> "", path |-> <<>>, queryStringParameters |-> EmptyDict,
     headers |-> EmptyDict, body |-> NoBody]

\* One activation of solve_dependencies: the Dependant it solves (by its
\* position in the route's tree), the index of the sub-dependency the loop
\* is at, and its local values and errors.
Frame(at) == [at |-> at, i |-> 1, values |-> EmptyDict, errors |-> <<>>]

IdleRequest ==
    [pc |-> "idle", serial |-> 0, event |-> NoEvent, route |-> 0,
     path_params |-> EmptyDict, body |-> None,
     stack |-> <<>>, cache |-> EmptyDict, exit_stack |-> <<>>,
     endpoint_values |-> EmptyDict, pending |-> NoOutcome,
     response |-> NoResponse, log |-> <<>>]

\* The Dependant at a position of a tree: the path of child indices from
\* the root.
RECURSIVE NodeAt(_, _)
NodeAt(node, at) == IF at = <<>> THEN node ELSE NodeAt(node.dependencies[at[1]], Tail(at))

\* The tree of the route a request was matched to.
TreeOf(rq) == routes[rq.route].dependant

Top(rq) == rq.stack[Len(rq.stack)]

\* An entry of the request's history.
LogEntry(ev, at, call, value) == [ev |-> ev, at |-> at, call |-> call, value |-> value]

\* The LambdaRequest object as a value handed to a callable.
RequestV(rq) == [ty |-> "request", event |-> rq.event]

\* The result of calling a callable: a counter callable returns the number
\* of calls made so far, a pure one a value fixed by its arguments.
Result(call, args, n) == [ty |-> "result", call |-> call, args |-> args, n |-> n]

\* "Auto-inject LambdaRequest if needed": the arguments of a call.
CallValues(node, values, rq) ==
    DictUpdate(values, [n \in node.request_params |-> RequestV(rq)])

Init ==
    /\ routes = <<>>
    /\ counters = [c \in CounterCallables |-> 0]
    /\ nreq = 0
    /\ req = [r \in Slots |-> IdleRequest]
    /\ registration = NoError
    /\ objects = <<>>
    /\ debug = FALSE
    /\ user_middleware = <<>>
    /\ middleware_stack = NoStack

\* The state after FastAPI(debug=...).
InitDebug ==
    /\ routes = <<>>
    /\ counters = [c \in CounterCallables |-> 0]
    /\ nreq = 0
    /\ req = [r \in Slots |-> IdleRequest]
    /\ registration = NoError
    /\ objects = <<>>
    /\ debug \in BOOLEAN
    /\ user_middleware = <<>>
    /\ middleware_stack = NoStack

(***************************************************************************)
(* LambdaRouter.add_route: Route.__init__ compiles the path and builds the *)
(* Dependant tree, then the route is appended.  A ValueError of            *)
(* compile_path leaves the route list as it was.                           *)
(***************************************************************************)
add_api_route(path, endpoint, methods, response_model) ==
    /\ Len(routes) < MaxRoutes
    /\ routes' = IF compile_path(path).raised = "ValueError"
                 THEN routes
                 ELSE Append(routes, Route(path, endpoint, methods, response_model))
    /\ registration' = IF compile_path(path).raised = "ValueError"
                       THEN ValueError("Unknown path convertor", compile_path(path).unknown)
                       ELSE NoError
    /\ UNCHANGED <<counters, nreq, req, objects, debug, user_middleware, middleware_stack>>

\* A route registered without response_model.
add_route(path, endpoint, methods) == add_api_route(path, endpoint, methods, None)

(***************************************************************************)
(* FastAPI.__call__ up to the first await of a user callable:              *)
(* LambdaRouter.route finds the route; Route.handle stores the path        *)
(* parameters as strings, reads the body and opens the AsyncExitStack and  *)
(* the first solve_dependencies activation.  No route: a 404 response.     *)
(***************************************************************************)
\* Variant: the handler passes on the cache of the other handler slot.
OtherRequestCache(r) == DictV(req[3 - r].cache)

\* Variant: no route found is signalled by raising HTTPException(404).
NotFoundRaised == HTTPException(404, "Not Found")

\* LambdaRouter.route, lines 340-344: no route matched.
NotFound == Returned(JSONResponse(DetailText("Not Found"), 404))

\* The dependency_cache argument of the solve_dependencies call of
\* Route.handle: none is passed.
HandleCacheArgument(r) == None

\* "if dependency_cache is None: dependency_cache = {}".
NewDependencyCache(arg) == IF IsNone(arg) THEN EmptyDict ELSE arg.d

\* AuthMiddleware.dispatch returns 401 without calling call_next, and has
\* nothing to do after it.
Blocks(layer, event) ==
    layer = "AuthMiddleware" /\ "authorization" \notin DOMAIN Request_headers(event)

Unauthorized == Returned(JSONResponse(DetailText("Unauthorized"), 401))

\* FaultyMiddleware.dispatch raises before it calls call_next.
Raises(layer, event) == layer = "FaultyMiddleware"

MiddlewareError == Raised("Exception", [ty |-> "call", call |-> "FaultyMiddleware"])

\* Variant: every layer is entered, whatever the layers around it did.
PreProcessingOfAll(layers, event) ==
    [k \in 1..Len(layers) |-> LogEntry("pre", <<>>, layers[k], None)]

\* BaseHTTPMiddleware.__call__ of the user layers, before call_next: the
\* layers are entered outermost first, down to the first that answers
\* itself or raises.
PreProcessing(layers, event) ==
    LET blocking == {k \in 1..Len(layers) :
                        Blocks(layers[k], event) \/ Raises(layers[k], event)}
        last == IF blocking = {} THEN Len(layers)
                ELSE CHOOSE k \in blocking : \A j \in blocking : k <= j
    IN [k \in 1..last |-> LogEntry("pre", <<>>, layers[k], None)]

\* Variant: an exception raised inside passes the user layers by.
PostProcessingUnlessRaised(log) ==
    IF \E k \in 1..Len(log) : log[k].ev \in {"raise", "fault"}
    THEN <<>>
    ELSE [k \in 1..Len(SelectSeq(log, LAMBDA e : e.ev = "pre")) |->
            LogEntry("post", <<>>,
                     SelectSeq(log, LAMBDA e : e.ev = "pre")[
                         Len(SelectSeq(log, LAMBDA e : e.ev = "pre")) + 1 - k].call, None)]

\* BaseHTTPMiddleware.__call__ after call_next returned: the layers that
\* were entered are left in reverse order.
PostProcessing(log) ==
    LET pre == SelectSeq(log, LAMBDA e : e.ev = "pre")
    IN [k \in 1..Len(pre) |-> LogEntry("post", <<>>, pre[Len(pre) + 1 - k].call, None)]

app_call(r, event) ==
    /\ nreq < MaxRequests
    /\ req[r].pc \in {"idle", "done"}
    /\ nreq' = nreq + 1
    /\ middleware_stack' = IF middleware_stack.built THEN middleware_stack
                           ELSE build_middleware_stack(user_middleware)
    /\ LET idx == RouteIndex(routes, Request_method(event), event.path)
           pre == PreProcessing(UserLayers(middleware_stack'), event)
           fresh == [IdleRequest EXCEPT !.serial = nreq + 1, !.event = event, !.log = pre]
       IN IF \E k \in 1..Len(pre) : Raises(pre[k].call, event)
          THEN req' = [req EXCEPT ![r] =
                  [fresh EXCEPT !.pc = "done", !.pending = MiddlewareError]]
          ELSE IF \E k \in 1..Len(pre) : Blocks(pre[k].call, event)
          THEN req' = [req EXCEPT ![r] =
                  [fresh EXCEPT
                     !.pc = "done",
                     !.pending = Unauthorized,
                     !.response = Unauthorized.response,
                     !.log = @ \o PostProcessing(SubSeq(pre, 1, Len(pre) - 1))]]
          ELSE IF idx = 0
          THEN req' = [req EXCEPT ![r] =
                  [fresh EXCEPT
                     !.pc = "done",
                     !.pending = NotFound,
                     !.response = MiddlewareStack(NotFound).response,
                     !.log = @ \o PostProcessing(pre)]]
          ELSE LET params == Route_matches(routes[idx], Request_method(event), event.path).path_params
               IN req' = [req EXCEPT ![r] =
                     [fresh EXCEPT
                        !.pc = "solving",
                        !.route = idx,
                        !.path_params = [k \in DOMAIN params |-> StrV(PyStr(params[k]))],
                        !.body = HandleBody(event),
                        !.cache = NewDependencyCache(HandleCacheArgument(r)),
                        !.stack = <<Frame(<<>>)>>]]
    /\ UNCHANGED <<routes, counters, registration, objects, debug, user_middleware>>

(***************************************************************************)
(* FastAPI.add_middleware: the new layer is put in front of the user       *)
(* layers; once the stack is built the call raises RuntimeError and        *)
(* changes nothing.                                                        *)
(***************************************************************************)
\* Variant: no check of the built stack.
add_middleware_unchecked(middleware_class) ==
    /\ Len(user_middleware) < MaxMiddleware
    /\ user_middleware' = ListInsert0(user_middleware, middleware_class)
    /\ registration' = NoError
    /\ UNCHANGED <<routes, counters, nreq, req, objects, debug, middleware_stack>>

add_middleware(middleware_class) ==
    /\ IF middleware_stack.built
       THEN /\ registration' =
                  RuntimeError("Cannot add middleware after an application has started")
            /\ UNCHANGED user_middleware
       ELSE /\ Len(user_middleware) < MaxMiddleware
            /\ user_middleware' = ListInsert0(user_middleware, middleware_class)
            /\ registration' = NoError
    /\ UNCHANGED <<routes, counters, nreq, req, objects, debug, middleware_stack>>

(***************************************************************************)
(* solve_dependencies, lines 474-486: the loop reaches a sub-dependency    *)
(* and solves it recursively.                                              *)
(***************************************************************************)
solve_enter(r) ==
    /\ req[r].pc = "solving"
    /\ LET f == Top(req[r])
           node == NodeAt(TreeOf(req[r]), f.at)
       IN /\ f.i <= Len(node.dependencies)
          /\ req' = [req EXCEPT ![r].stack = Append(@, Frame(Append(f.at, f.i)))]
    /\ UNCHANGED <<routes, counters, nreq, registration, objects, debug, user_middleware, middleware_stack>>

\* solve_dependencies, lines 522-550: the node's own path, query, header
\* and body fields, merged into the values and errors gathered from its
\* sub-dependencies.
OwnFields(node, f, rq) ==
    LET path_r == extract_params_from_dict(node.path_params, rq.path_params)
        query_r == extract_params_from_dict(node.query_params, Request_query_params(rq.event))
        header_r == extract_params_from_dict(node.header_params, Request_headers(rq.event))
        body_r == IF node.body_params # <<>>
                  THEN extract_body_params(node.body_params, rq.body)
                  ELSE [values |-> EmptyDict, errors |-> <<>>]
    IN [values |-> DictUpdate(DictUpdate(DictUpdate(DictUpdate(f.values, path_r.values),
                                  query_r.values), header_r.values), body_r.values),
        errors |-> f.errors \o path_r.errors \o query_r.errors \o header_r.errors
                      \o body_r.errors]

\* Variants of the branch: the cache is never consulted; the cache is
\* consulted whatever use_cache says; every callable is awaited.
SolveBranchNeverCached(sub, cache) ==
    IF Callables[sub.call].shape \in {"syncgen", "asyncgen"} THEN "generator"
    ELSE IF Callables[sub.call].shape = "coroutine" THEN "coroutine"
    ELSE "invalid"

SolveBranchAlwaysCached(sub, cache) ==
    IF sub.cache_key \in DOMAIN cache THEN "cached"
    ELSE IF Callables[sub.call].shape \in {"syncgen", "asyncgen"} THEN "generator"
    ELSE IF Callables[sub.call].shape = "coroutine" THEN "coroutine"
    ELSE "invalid"

SolveBranchAnyCallable(sub, cache) ==
    IF sub.use_cache /\ sub.cache_key \in DOMAIN cache THEN "cached"
    ELSE IF Callables[sub.call].shape = "asyncgen" THEN "generator"
    ELSE "coroutine"

\* Variant: the factory is called once and its product is handed to every
\* request.
MemoisedDefault(factory, heap) ==
    IF heap = <<>>
    THEN [value |-> ListV(1, <<>>), objects |-> <<<<>>>>]
    ELSE [value |-> ListV(1, heap[1]), objects |-> heap]

\* dependencies.py line 561, deepcopy(field.default) for a field with a
\* default factory: the factory is called and its product copied, which
\* gives an object no one else holds.
NewDefault(factory, heap) ==
    [value |-> ListV(Len(heap) + 1, <<>>), objects |-> Append(heap, <<>>)]

\* The defaults among the extracted values become objects of the heap.
RECURSIVE Allocate(_, _)
Allocate(values, heap) ==
    LET news == {k \in DOMAIN values : values[k].ty = "new"}
    IN IF news = {} THEN [values |-> values, objects |-> heap]
       ELSE LET k == CHOOSE x \in news : TRUE
                made == NewDefault(values[k].factory, heap)
            IN Allocate(DictSet(values, k, made.value), made.objects)

\* The extracted values with the defaults made.
WithDefaults(extraction, heap) ==
    LET made == Allocate(extraction.values, heap)
    IN [values |-> made.values, errors |-> extraction.errors, objects |-> made.objects]

\* SolvedDependency(values=values, errors=errors) of an activation.
SolvedDependency(node, f, rq, heap) == WithDefaults(OwnFields(node, f, rq), heap)

\* The endpoint appends an item to the lists it mutates.
RECURSIVE Mutate(_, _, _)
Mutate(heap, values, names) ==
    IF names = {} THEN heap
    ELSE LET k == CHOOSE x \in names : TRUE
             v == DictGet(values, k)
         IN Mutate(IF v.ty = "list" /\ v.id # 0
                   THEN [heap EXCEPT ![v.id] = Append(@, "x")]
                   ELSE heap,
                   values, names \ {k})

\* Lines 492-514: how the value of a solved sub-dependency is obtained.
SolveBranch(sub, cache) ==
    IF sub.use_cache /\ sub.cache_key \in DOMAIN cache THEN "cached"
    ELSE IF Callables[sub.call].shape \in {"syncgen", "asyncgen"} THEN "generator"
    ELSE IF Callables[sub.call].shape = "coroutine" THEN "coroutine"
    ELSE "invalid"

\* Variant: the errors are ignored and the endpoint is called.
IgnoresValidationErrors(errors) == FALSE

\* Route.handle, lines 199-204: whether the errors of the resolution make
\* the handler raise RequestValidationError instead of calling the endpoint.
RaisesValidationError(errors) == errors # <<>>

\* Lines 519-520: the cache after a sub-dependency was solved.
CacheStore(cache, sub, solved) ==
    IF sub.cache_key \notin DOMAIN cache THEN DictSet(cache, sub.cache_key, solved) ELSE cache

\* Variant: the errors of the sub-dependency are dropped.
SkipChildDropErrors(parent, sub_errors) ==
    [parent EXCEPT !.i = @ + 1]

\* Lines 488-490: the errors of a sub-dependency are added to the caller's
\* and the loop continues with the next sub-dependency.
SkipChild(parent, sub_errors) ==
    [parent EXCEPT !.errors = @ \o sub_errors, !.i = @ + 1]

\* Lines 516-517: the value is stored under the parameter name and the
\* loop goes on.
StoreValue(parent, name, solved) ==
    [parent EXCEPT !.values = DictSet(@, name, solved), !.i = @ + 1]

\* get_authorization_scheme_param: the header value parted at its first
\* space.
get_authorization_scheme_param(authorization_header_value) ==
    IF IsNone(authorization_header_value) \/ authorization_header_value.s = <<>>
    THEN [scheme |-> <<>>, param |-> <<>>]
    ELSE LET v == authorization_header_value.s
             spaces == {k \in 1..Len(v) : v[k] = " "}
             at == IF spaces = {} THEN Len(v) + 1
                   ELSE CHOOSE k \in spaces : \A j \in spaces : k <= j
         IN [scheme |-> SubSeq(v, 1, at - 1), param |-> SubSeq(v, at + 1, Len(v))]

\* HTTPBearer.__call__ with auto_error: the exception it raises, or no
\* exception when the header holds bearer credentials.
HTTPBearer_call(rq) ==
    LET authorization == DictGet(Request_headers(rq.event), "authorization")
        parted == get_authorization_scheme_param(authorization)
    IN IF parted.scheme = <<>> \/ parted.param = <<>>
       THEN HTTPException(403, "Not authenticated")
       ELSE IF Lower(parted.scheme[1]) # "bearer"
       THEN HTTPException(403, "Invalid authentication credentials")
       ELSE NoOutcome

\* The outcomes the call of a dependency can have for a request.
CallOutcomes(call, rq) ==
    IF call = "http_bearer"
    THEN IF HTTPBearer_call(rq).raised THEN {"HTTPException"} ELSE {"ok"}
    ELSE {"ok"} \cup Callables[call].raises

\* The HTTPException a callable raises.
HTTPExceptionOf(call, rq) ==
    CASE call = "http_bearer" -> HTTPBearer_call(rq)
      [] call = "fresh" -> HTTPException(304, "Not Modified")
      [] OTHER -> HTTPException(403, "Not authenticated")

\* Variant: the exception leaves without the exit stack being run.
UnwindWithoutExit(rq, exc, entry) ==
    [rq EXCEPT !.pc = "exit", !.stack = <<>>, !.pending = exc, !.exit_stack = <<>>,
               !.log = Append(@, entry)]

\* An exception leaves solve_dependencies: every activation is unwound and
\* the AsyncExitStack starts to exit with the exception pending.
Unwind(rq, exc, entry) ==
    [rq EXCEPT !.pc = "exit", !.stack = <<>>, !.pending = exc, !.log = Append(@, entry)]

(***************************************************************************)
(* solve_dependencies returns from an activation (lines 522-550).  In the  *)
(* root activation Route.handle goes on (lines 199-204); in any other the  *)
(* caller's loop body goes on (lines 488-520): the errors of the           *)
(* sub-dependency are kept and its callable skipped, or its value is taken *)
(* from the cache, from entering the generator or from awaiting the        *)
(* callable, which may raise.                                              *)
(***************************************************************************)
solve_continue(r, outcome, solved_result) ==
    /\ LET rq == req[r]
           f == Top(rq)
           node == NodeAt(TreeOf(rq), f.at)
           extracted == LogEntry("extract", f.at, node.call, None)
       IN /\ f.i > Len(node.dependencies)
          /\ objects' = solved_result.objects
          /\ IF Len(rq.stack) = 1
             THEN /\ outcome = "ok"
                  /\ UNCHANGED counters
                  /\ req' = [req EXCEPT ![r] =
                        IF RaisesValidationError(solved_result.errors)
                        THEN Unwind(rq, RequestValidationError(solved_result.errors), extracted)
                        ELSE [rq EXCEPT !.pc = "endpoint", !.stack = <<>>,
                                        !.endpoint_values = solved_result.values,
                                        !.log = Append(@, extracted)]]
             ELSE LET parent == rq.stack[Len(rq.stack) - 1]
                      branch == SolveBranch(node, rq.cache)
                      shape == Callables[node.call].shape
                      invoked == solved_result.errors = <<>>
                                   /\ (branch = "coroutine" \/ (branch = "generator" /\ shape = "asyncgen"))
                      n == IF node.call \in CounterCallables THEN counters[node.call] + 1 ELSE 0
                      solved == IF branch = "cached" THEN rq.cache[node.cache_key]
                                ELSE Result(node.call, CallValues(node, solved_result.values, rq), n)
                      rq1 == [rq EXCEPT !.log = Append(@, extracted)]
                      popped == SubSeq(rq.stack, 1, Len(rq.stack) - 2)
                  IN /\ outcome \in (IF invoked THEN CallOutcomes(node.call, rq) ELSE {"ok"})
                     /\ counters' = IF invoked /\ node.call \in CounterCallables
                                    THEN [counters EXCEPT ![node.call] = n]
                                    ELSE counters
                     /\ req' = [req EXCEPT ![r] =
                          IF solved_result.errors # <<>>
                          THEN [rq1 EXCEPT
                                  !.stack = Append(popped, SkipChild(parent, solved_result.errors)),
                                  !.log = Append(@, LogEntry("skip", f.at, node.call, None))]
                          ELSE IF branch = "invalid" \/ (branch = "generator" /\ shape = "syncgen")
                          THEN Unwind(rq1, Raised("RuntimeError", [ty |-> "call", call |-> node.call]),
                                      LogEntry("fault", f.at, node.call, None))
                          ELSE IF outcome = "HTTPException"
                          THEN Unwind(rq1, HTTPExceptionOf(node.call, rq),
                                      LogEntry("raise", f.at, node.call, None))
                          ELSE IF outcome = "Exception"
                          THEN Unwind(rq1, Raised("Exception", [ty |-> "call", call |-> node.call]),
                                      LogEntry("raise", f.at, node.call, None))
                          ELSE [rq1 EXCEPT
                                  !.stack = Append(popped, StoreValue(parent, node.name, solved)),
                                  !.cache = CacheStore(@, node, solved),
                                  !.exit_stack = IF branch = "generator"
                                                 THEN Append(@, [call |-> node.call, at |-> f.at])
                                                 ELSE @,
                                  !.log = Append(@, LogEntry(
                                             CASE branch = "cached" -> "hit"
                                               [] branch = "generator" -> "enter"
                                               [] OTHER -> "call",
                                             f.at, node.call, solved))]]
    /\ UNCHANGED <<routes, nreq, registration, debug, user_middleware, middleware_stack>>

\* Lines 522-550 give the SolvedDependency of the activation: the values of
\* the sub-dependencies and of the callable's own fields, and the errors.
solve_return(r, outcome) ==
    /\ req[r].pc = "solving"
    /\ solve_continue(r, outcome,
          SolvedDependency(NodeAt(TreeOf(req[r]), Top(req[r]).at), Top(req[r]), req[r], objects))

(***************************************************************************)
(* Route.handle, lines 206-221: the endpoint is called with the resolved   *)
(* values (awaited, or run in the executor when it is not async); it       *)
(* returns or raises, and the AsyncExitStack starts to exit.               *)
(***************************************************************************)
\* What the endpoint returns: a LambdaResponse it built itself, a dict, or a
\* value that stands for the call and its arguments.
EndpointResult(call, args) ==
    CASE Callables[call].returns = "response" ->
            [ty |-> "response",
             response |-> LambdaResponse(StrV(<<"c">>), 201, "X-Custom" :> "header")]
      [] Callables[call].returns = "dict" ->
            DictV("name" :> StrV(<<"w">>) @@ "price" :> IntV(9) @@ "internal_id" :> IntV(5))
      [] Callables[call].returns = "partial" ->
            DictV("name" :> StrV(<<"w">>) @@ "internal_id" :> IntV(5))
      [] OTHER -> Result(call, args, 0)

\* Variant: the response model is applied to a LambdaResponse too.
HandleResultAlwaysSerialized(route, result) ==
    LET value == IF result.ty = "response" THEN result.response.content ELSE result
        r == IF IsNone(route.response_model) THEN [v |-> value, errors |-> <<>>]
             ELSE ModelField_validate(route.response_field, value, <<"response">>)
    IN IF r.errors # <<>> THEN Raised("ValidationError", [ty |-> "errors", errors |-> r.errors])
       ELSE Returned(JSONResponse(IF r.v.ty = "model" THEN DictV(r.v.d) ELSE r.v, 200))

\* Route.handle, lines 223-239: a LambdaResponse is returned as it is; with
\* a response model the result is validated (pydantic's ValidationError
\* leaves the handler when it does not fit) and dumped, which keeps the
\* model's fields only; any other result is wrapped in a JSONResponse.
HandleResult(route, result) ==
    IF result.ty = "response" THEN Returned(result.response)
    ELSE IF ~IsNone(route.response_model)
    THEN LET r == ModelField_validate(route.response_field, result, <<"response">>)
         IN IF r.errors # <<>>
            THEN Raised("ValidationError", [ty |-> "errors", errors |-> r.errors])
            ELSE Returned(JSONResponse(DictV(r.v.d), 200))
    ELSE Returned(JSONResponse(result, 200))

call_endpoint(r, outcome) ==
    /\ req[r].pc = "endpoint"
    /\ LET rq == req[r]
           route == routes[rq.route]
           endpoint_values == CallValues(route.dependant, rq.endpoint_values, rq)
           result == EndpointResult(route.endpoint, endpoint_values)
       IN /\ outcome \in {"ok"} \cup Callables[route.endpoint].raises
          /\ req' = [req EXCEPT ![r] =
                [rq EXCEPT
                   !.pc = "exit",
                   !.pending = CASE outcome = "ok" -> HandleResult(route, result)
                                 [] outcome = "HTTPException" -> HTTPException(403, "Not authenticated")
                                 [] OTHER -> Raised("Exception", [ty |-> "call", call |-> route.endpoint]),
                   !.log = Append(@, LogEntry("endpoint", <<>>, route.endpoint,
                                              IF outcome = "ok" THEN result ELSE None))]]
          /\ objects' = Mutate(objects, endpoint_values, Callables[route.endpoint].mutates)
    /\ UNCHANGED <<routes, counters, nreq, registration, debug, user_middleware, middleware_stack>>

(***************************************************************************)
(* AsyncExitStack.__aexit__: the generator entered last is resumed so that *)
(* its code after the yield runs.                                          *)
(***************************************************************************)
\* Variant: the generators are resumed in the order they were entered.
aexit_first_entered(r) ==
    /\ req[r].pc = "exit"
    /\ req[r].exit_stack # <<>>
    /\ LET rq == req[r]
           cm == rq.exit_stack[1]
       IN req' = [req EXCEPT ![r] =
             [rq EXCEPT !.exit_stack = Tail(@),
                        !.log = Append(@, LogEntry("teardown", cm.at, cm.call, None))]]
    /\ UNCHANGED <<routes, counters, nreq, registration, objects, debug, user_middleware,
                   middleware_stack>>

\* Variant: a teardown that never completes.
aexit_never_returns(r) ==
    /\ req[r].pc = "exit"
    /\ req[r].exit_stack # <<>>
    /\ UNCHANGED <<routes, counters, nreq, req, registration, objects, debug, user_middleware,
                   middleware_stack>>

aexit(r) ==
    /\ req[r].pc = "exit"
    /\ req[r].exit_stack # <<>>
    /\ LET rq == req[r]
           cm == rq.exit_stack[Len(rq.exit_stack)]
       IN req' = [req EXCEPT ![r] =
             [rq EXCEPT !.exit_stack = SubSeq(@, 1, Len(@) - 1),
                        !.log = Append(@, LogEntry("teardown", cm.at, cm.call, None))]]
    /\ UNCHANGED <<routes, counters, nreq, registration, objects, debug, user_middleware, middleware_stack>>

(***************************************************************************)
(* The exit stack is empty: Route.handle returns the response or the       *)
(* exception goes on, through ExceptionMiddleware and                      *)
(* ServerErrorMiddleware, and FastAPI.__call__ returns the response.       *)
(***************************************************************************)
\* Variant: the response is made while generators are still open.
respond_before_exit(r) ==
    /\ req[r].pc = "exit"
    /\ req' = [req EXCEPT ![r].pc = "done",
                          ![r].response = ServerErrorMiddleware(
                                              ExceptionMiddleware(req[r].pending)).response,
                          ![r].log = @ \o [k \in 1..Len(SelectSeq(@, LAMBDA e : e.ev = "pre")) |->
                                              LogEntry("post", <<>>,
                                                  SelectSeq(@, LAMBDA e : e.ev = "pre")[
                                                      Len(SelectSeq(@, LAMBDA e : e.ev = "pre")) + 1 - k].call,
                                                  None)]]
    /\ UNCHANGED <<routes, counters, nreq, registration, objects, debug, user_middleware,
                   middleware_stack>>

respond(r) ==
    /\ req[r].pc = "exit"
    /\ req[r].exit_stack = <<>>
    /\ req' = [req EXCEPT ![r].pc = "done",
                          ![r].response = MiddlewareStack(req[r].pending).response,
                          ![r].log = @ \o PostProcessing(@)]
    /\ UNCHANGED <<routes, counters, nreq, registration, objects, debug, user_middleware, middleware_stack>>

Outcomes == {"ok", "HTTPException", "Exception"}

\* A handler slot takes one step.
Handle(r) ==
    \/ solve_enter(r)
    \/ \E outcome \in Outcomes : solve_return(r, outcome)
    \/ \E outcome \in Outcomes : call_endpoint(r, outcome)
    \/ aexit(r)
    \/ respond(r)

(***************************************************************************)
(* The app of the dependency tests: one route per endpoint, requests with  *)
(* the query and header values the endpoints read, handled one at a time.  *)
(***************************************************************************)
P(s) == Text(s)

RouteDecls ==
    { [path |-> P(<<"/", "r">>), endpoint |-> "root", methods |-> {"GET"}],
      [path |-> P(<<"/", "n">>), endpoint |-> "no_cache", methods |-> {"GET"}],
      [path |-> P(<<"/", "s">>), endpoint |-> "search", methods |-> {"GET"}],
      [path |-> P(<<"/", "c">>), endpoint |-> "use_class", methods |-> {"GET"}],
      [path |-> P(<<"/", "g">>), endpoint |-> "use_sync_gen", methods |-> {"GET"}],
      [path |-> P(<<"/", "m">>), endpoint |-> "me", methods |-> {"GET"}] }

Events ==
    { [httpMethod |-> "GET", path |-> p, queryStringParameters |-> q, headers |-> h,
       body |-> NoBody] :
        p \in {<<"/", "r">>, <<"/", "n">>, <<"/", "s">>, <<"/", "c">>, <<"/", "g">>, <<"/", "m">>},
        q \in {EmptyDict, "q" :> StrV(<<"1">>), "q" :> StrV(<<"a">>)},
        h \in {EmptyDict, "X-Token" :> StrV(<<"t">>)} }

Next ==
    \/ \E d \in RouteDecls : add_route(d.path, d.endpoint, d.methods)
    \/ \E event \in Events : app_call(1, event)
    \/ Handle(1)

Spec == Init /\ [][Next]_vars

(***************************************************************************)
(* Notions the properties are stated in.                                   *)
(***************************************************************************)
\* The positions of a Dependant tree; <<>> is the endpoint's own node.
RECURSIVE Positions(_)
Positions(node) ==
    {<<>>} \cup UNION {{<<i>> \o p : p \in Positions(node.dependencies[i])} :
                          i \in 1..Len(node.dependencies)}

Dependencies(tree) == Positions(tree) \ {<<>>}

\* The requests that were matched to a route.
Matched == {r \in Slots : req[r].route # 0}

\* The indices of the history entries of the given kinds at a position.
LogIdx(rq, evs, at) == {k \in 1..Len(rq.log) : rq.log[k].ev \in evs /\ rq.log[k].at = at}

Invocations(rq, at) == LogIdx(rq, {"call", "enter"}, at)

Uses(rq, at) == LogIdx(rq, {"call", "enter", "hit"}, at)

\* The positions that require the dependency with this identity key.
SitesOf(tree, key, use_cache) ==
    {p \in Dependencies(tree) :
        NodeAt(tree, p).cache_key = key /\ NodeAt(tree, p).use_cache = use_cache}

\* The root activation of solve_dependencies has returned.
ResolutionFinished(rq) == LogIdx(rq, {"extract"}, <<>>) # {}

\* p is declared before q: resolution is depth first, in parameter order.
Before(p, q) ==
    \E i \in 1..Len(p) :
        /\ i <= Len(q)
        /\ Take(p, i - 1) = Take(q, i - 1)
        /\ p[i] < q[i]

\* The node itself and the nodes above it, the endpoint excluded.
Ancestors(p) == {Take(p, i) : i \in 1..Len(p)}

IsUnder(p, a) == Len(a) <= Len(p) /\ Take(p, Len(a)) = a

\* The values the callable at a position was called with.
CallArgs(rq, at) ==
    {rq.log[k].value.args : k \in {j \in LogIdx(rq, {"call", "enter", "endpoint"}, at) :
                                        rq.log[j].value.ty = "result"}}

\* The errors of the fields declared by the node at a position, for the
\* request's path, query, headers and body.
FieldErrorsAt(rq, p) ==
    Range(OwnFields(NodeAt(TreeOf(rq), p), Frame(p), rq).errors)

\* The declared fields that are invalid or missing: callable and error.
InvalidFields(rq, ps) ==
    UNION {{<<NodeAt(TreeOf(rq), p).call, e>> : e \in FieldErrorsAt(rq, p)} : p \in ps}

ErrorsUnder(rq, a) ==
    UNION {FieldErrorsAt(rq, p) : p \in {q \in Positions(TreeOf(rq)) : IsUnder(q, a)}}

AllErrors(rq) == ErrorsUnder(rq, <<>>)

(***************************************************************************)
(* C1.  Within one request, a dependency whose identity key is required at *)
(* two or more places of the tree, each with use_cache=True, is invoked at *)
(* most once at any moment and exactly once when the resolution has        *)
(* finished and the dependency's own fields were valid; every use site     *)
(* holds that one result and hands it to the callable that required it.    *)
(***************************************************************************)
C1_CachedInvokedOnce ==
    \A r \in Matched :
        LET rq == req[r]
            tree == TreeOf(rq)
        IN \A p \in Dependencies(tree) :
              LET key == NodeAt(tree, p).cache_key
                  sites == SitesOf(tree, key, TRUE)
                  calls == UNION {Invocations(rq, s) : s \in sites}
                  uses == UNION {Uses(rq, s) : s \in sites}
              IN (Cardinality(sites) >= 2 /\ SitesOf(tree, key, FALSE) = {}) =>
                    /\ Cardinality(calls) <= 1
                    /\ \A k1, k2 \in uses : rq.log[k1].value = rq.log[k2].value
                    /\ \A s \in sites : \A k \in Uses(rq, s) :
                          \A args \in CallArgs(rq, Take(s, Len(s) - 1)) :
                              args[NodeAt(tree, s).name] = rq.log[k].value
                    /\ (ResolutionFinished(rq) /\ \A s \in sites : LogIdx(rq, {"skip"}, s) = {}) =>
                          /\ Cardinality(calls) = 1
                          /\ \A s \in sites : Uses(rq, s) # {}

\* Both dep1 and dep2 of the route "root" were given the value of the one
\* get_value call, and the endpoint has returned.
C1_Witness ==
    \E r \in Matched :
        /\ req[r].pc = "done"
        /\ routes[req[r].route].endpoint = "root"
        /\ req[r].response.status_code = 200
        /\ Invocations(req[r], <<1, 1>>) # {}
        /\ LogIdx(req[r], {"hit"}, <<2, 1>>) # {}

(***************************************************************************)
(* C2.  Within one request, a dependency required k times, each time with  *)
(* use_cache=False, is never served from the cache; when the resolution    *)
(* has finished it was invoked once at each of the k places, in            *)
(* declaration order, and each place holds the result of its own call.     *)
(***************************************************************************)
C2_UncachedInvokedPerOccurrence ==
    \A r \in Matched :
        LET rq == req[r]
            tree == TreeOf(rq)
        IN \A p \in Dependencies(tree) :
              LET key == NodeAt(tree, p).cache_key
                  sites == SitesOf(tree, key, FALSE)
                  calls == UNION {Invocations(rq, s) : s \in sites}
              IN (p \in sites /\ SitesOf(tree, key, TRUE) = {}) =>
                    /\ \A s \in sites : /\ LogIdx(rq, {"hit"}, s) = {}
                                        /\ Cardinality(Invocations(rq, s)) <= 1
                    /\ \A s1, s2 \in sites :
                          Before(s1, s2) =>
                             \A k1 \in Invocations(rq, s1), k2 \in Invocations(rq, s2) :
                                /\ k1 < k2
                                /\ NodeAt(tree, p).call \in CounterCallables
                                      => rq.log[k1].value.n < rq.log[k2].value.n
                    /\ \A s \in sites : \A k \in Invocations(rq, s) :
                          \A args \in CallArgs(rq, Take(s, Len(s) - 1)) :
                              args[NodeAt(tree, s).name] = rq.log[k].value
                    /\ ResolutionFinished(rq) => Cardinality(calls) = Cardinality(sites)

\* The route "no_cache" has returned: get_count was called at both places.
C2_Witness ==
    \E r \in Matched :
        /\ req[r].pc = "done"
        /\ routes[req[r].route].endpoint = "no_cache"
        /\ req[r].response.status_code = 200
        /\ Invocations(req[r], <<1>>) # {}
        /\ Invocations(req[r], <<2>>) # {}

(***************************************************************************)
(* C3.  A generator dependency is torn down only if it was entered, at     *)
(* most once, and only when the request cycle ends (nothing is resolved or *)
(* called after a teardown); when the response is produced, every entered  *)
(* generator has been torn down exactly once, whichever way the handler    *)
(* was left.                                                               *)
(***************************************************************************)
C3_TeardownExactlyOnce ==
    \A r \in Matched :
        LET rq == req[r]
        IN /\ \A p \in Dependencies(TreeOf(rq)) :
                 /\ Cardinality(LogIdx(rq, {"enter"}, p)) <= 1
                 /\ Cardinality(LogIdx(rq, {"teardown"}, p))
                       <= Cardinality(LogIdx(rq, {"enter"}, p))
                 /\ \A t \in LogIdx(rq, {"teardown"}, p), e \in LogIdx(rq, {"enter"}, p) : e < t
                 /\ rq.pc = "done" =>
                       Cardinality(LogIdx(rq, {"teardown"}, p))
                          = Cardinality(LogIdx(rq, {"enter"}, p))
           /\ \A k1, k2 \in 1..Len(rq.log) :
                 (k1 < k2 /\ rq.log[k1].ev = "teardown") => rq.log[k2].ev = "teardown"

\* A request ended in a fault after a generator had been entered, and the
\* generator was torn down.
C3_Witness ==
    \E r \in Matched :
        /\ req[r].pc = "done"
        /\ req[r].response.status_code = 500
        /\ \E k \in 1..Len(req[r].log) : req[r].log[k].ev = "teardown"

\* The request ended as a validation failure carrying these errors.
ValidationFailure(rq) ==
    rq.pending.raised /\ rq.pending.exc.type = "RequestValidationError"

ReportedErrors(rq) == rq.pending.exc.detail.errors

(***************************************************************************)
(* C4.  When N distinct declared fields of the matched route's tree are    *)
(* invalid or missing, the validation failure carries exactly N errors,    *)
(* one per field.                                                          *)
(***************************************************************************)
C4_ExactlyOneErrorPerField ==
    \A r \in Matched :
        ValidationFailure(req[r]) =>
            Len(ReportedErrors(req[r]))
               = Cardinality(InvalidFields(req[r], Positions(TreeOf(req[r]))))

(***************************************************************************)
(* C5.  A sub-dependency whose resolution produced an error is not invoked *)
(* and neither is any dependency above it; once the resolution has         *)
(* finished, every sibling of it was resolved, the fields of the node that *)
(* requires it were extracted, and its errors are among those of the       *)
(* validation failure.                                                     *)
(***************************************************************************)
C5_ErroringChildSkipped ==
    \A r \in Matched :
        LET rq == req[r]
            tree == TreeOf(rq)
        IN \A p \in Dependencies(tree) :
              LET parent == Take(p, Len(p) - 1)
              IN /\ ErrorsUnder(rq, p) # {} =>
                       /\ \A a \in Ancestors(p) : Uses(rq, a) = {}
                       /\ LogIdx(rq, {"endpoint"}, <<>>) = {}
                 /\ LogIdx(rq, {"skip"}, p) # {} <=>
                       (ErrorsUnder(rq, p) # {} /\ LogIdx(rq, {"extract"}, p) # {})
                 /\ (ErrorsUnder(rq, p) # {} /\ ResolutionFinished(rq)) =>
                       /\ \A i \in 1..Len(NodeAt(tree, parent).dependencies) :
                             LogIdx(rq, {"extract"}, Append(parent, i)) # {}
                       /\ LogIdx(rq, {"extract"}, parent) # {}
                       /\ ValidationFailure(rq)
                       /\ ErrorsUnder(rq, p) \subseteq Range(ReportedErrors(rq))
                       /\ FieldErrorsAt(rq, parent) \subseteq Range(ReportedErrors(rq))

\* The route "search" with neither q nor the x-token header: the first
\* sub-dependency was skipped, the later ones were still resolved, and the
\* endpoint's own header field was still extracted and reported.
C5_Witness ==
    \E r \in Matched :
        /\ routes[req[r].route].endpoint = "search"
        /\ LogIdx(req[r], {"skip"}, <<1>>) # {}
        /\ LogIdx(req[r], {"enter"}, <<2>>) # {}
        /\ LogIdx(req[r], {"skip"}, <<3>>) # {}
        /\ ValidationFailure(req[r])
        /\ FieldErrorsAt(req[r], <<>>) # {}

(***************************************************************************)
(* C6.  When a field of the matched route's tree is invalid or missing the *)
(* endpoint is never invoked, and when the resolution finishes the request *)
(* ends with one response of status 422 whose detail holds every error.    *)
(***************************************************************************)
C6_ErrorsGive422 ==
    \A r \in Matched :
        LET rq == req[r]
        IN AllErrors(rq) # {} =>
              /\ LogIdx(rq, {"endpoint"}, <<>>) = {}
              /\ ResolutionFinished(rq) =>
                    /\ ValidationFailure(rq)
                    /\ AllErrors(rq) \subseteq Range(ReportedErrors(rq))
                    /\ rq.pc = "done" =>
                          /\ rq.response.status_code = 422
                          /\ rq.response.content.detail.ty = "errors"
                          /\ rq.response.content.detail.errors = ReportedErrors(rq)

\* A response of status 422 that carries more than one error.
C6_Witness ==
    \E r \in Matched :
        /\ req[r].pc = "done"
        /\ req[r].response.status_code = 422
        /\ Cardinality(AllErrors(req[r])) >= 2
        /\ AllErrors(req[r]) \subseteq Range(req[r].response.content.detail.errors)

\* The dependencies of a tree that are neither async functions nor async
\* generators.
InvalidDependencies(tree) ==
    {p \in Dependencies(tree) : Callables[NodeAt(tree, p).call].shape \notin {"coroutine", "asyncgen"}}

C9_EndpointAtMostOnce ==
    \A r \in Matched :
        LET rq == req[r]
            tree == TreeOf(rq)
        IN /\ Cardinality(LogIdx(rq, {"endpoint"}, <<>>)) <= 1
           /\ \A k \in LogIdx(rq, {"endpoint"}, <<>>) :
                 /\ k > 1
                 /\ rq.log[k - 1].ev = "extract" /\ rq.log[k - 1].at = <<>>
                 /\ AllErrors(rq) = {}
                 /\ \A p \in Dependencies(tree) :
                       \E j \in Uses(rq, p) : j < k
           /\ \A p \in Positions(tree) :
                 /\ Cardinality(LogIdx(rq, {"extract"}, p)) <= 1
                 /\ Cardinality(LogIdx(rq, {"call", "enter", "hit", "skip", "fault", "raise"}, p)) <= 1
           /\ \A k1, k2 \in 1..Len(rq.log) :
                 (k1 < k2 /\ rq.log[k1].ev \in {"endpoint", "fault", "raise"})
                    => rq.log[k2].ev = "teardown"
           /\ (rq.pc = "done") <=> (rq.response # NoResponse)

\* The endpoint "me" was invoked after its three dependencies had been
\* resolved, and it raised.
C9_Witness ==
    \E r \in Matched :
        /\ req[r].pc = "done"
        /\ routes[req[r].route].endpoint = "me"
        /\ LogIdx(req[r], {"endpoint"}, <<>>) # {}
        /\ req[r].response.status_code = 500

(***************************************************************************)
(* An app whose routes overlap: int, str and path placeholders, a literal  *)
(* path, different method sets, and a path that does not compile.          *)
(***************************************************************************)
RoutingDecls ==
    { [path |-> Text(<<"/", "i", "/">>) \o <<Par("item_id", "int")>>,
       endpoint |-> "get_item", methods |-> {"GET"}],
      [path |-> Text(<<"/", "i", "/">>) \o <<Par("name", "")>>,
       endpoint |-> "ping", methods |-> {"get", "POST"}],
      [path |-> Text(<<"/", "i", "/", "7">>), endpoint |-> "pong", methods |-> {"POST"}],
      [path |-> Text(<<"/">>) \o <<Par("rest", "path")>>,
       endpoint |-> "use_class", methods |-> {"GET"}],
      [path |-> Text(<<"/", "i", "/">>) \o <<Par("item_id", "uuid")>>,
       endpoint |-> "ping", methods |-> {"GET"}] }

RoutingEvents ==
    { [httpMethod |-> m, path |-> p, queryStringParameters |-> EmptyDict,
       headers |-> EmptyDict, body |-> NoBody] :
        m \in {"GET", "POST"},
        p \in {<<"/", "i", "/", "7">>, <<"/", "i", "/", "a">>, <<"/", "i", "/", "7", "\n">>,
               <<"/", "x">>, <<"x">>} }

NextRouting ==
    \/ \E d \in RoutingDecls : add_route(d.path, d.endpoint, d.methods)
    \/ \E event \in RoutingEvents : app_call(1, event)
    \/ Handle(1)

SpecRouting == Init /\ [][NextRouting]_vars

(***************************************************************************)
(* C10.  When a request is dispatched, the route that handles it is the    *)
(* first one in registration order whose methods contain the request       *)
(* method and whose pattern matches the path; with no such route the       *)
(* answer is 404.  Only the endpoint of that route is ever invoked for the *)
(* request, whatever routes match later in the list.                       *)
(***************************************************************************)
C10_FirstMatchWins ==
    /\ [][\A r \in Slots :
            req'[r].serial # req[r].serial =>
               LET event == req'[r].event
                   idx == req'[r].route
                   Matches(j) == Route_matches(routes[j], Request_method(event), event.path).matched
               IN /\ idx \in 0..Len(routes)
                  /\ idx # 0 => Matches(idx) /\ \A j \in 1..(idx - 1) : ~Matches(j)
                  /\ idx = 0 => /\ \A j \in 1..Len(routes) : ~Matches(j)
                                /\ req'[r].response.status_code = 404]_vars
    /\ [](\A r \in Slots :
            \A k \in 1..Len(req[r].log) :
               req[r].log[k].ev = "endpoint" =>
                  /\ req[r].route # 0
                  /\ req[r].log[k].call = routes[req[r].route].endpoint)

\* Two routes with different endpoints match the request; the first one
\* handled it.
C10_Witness ==
    \E r \in Matched :
        /\ req[r].pc = "done"
        /\ req[r].route = 1
        /\ Len(routes) = 2
        /\ routes[1].endpoint # routes[2].endpoint
        /\ Route_matches(routes[2], Request_method(req[r].event), req[r].event.path).matched
        /\ \E k \in 1..Len(req[r].log) :
              req[r].log[k].ev = "endpoint" /\ req[r].log[k].call = routes[1].endpoint

(***************************************************************************)
(* Two handler slots: FastAPI.__call__ coroutines of two events on one     *)
(* event loop, interleaved at their await points.                          *)
(***************************************************************************)
ConcDecls ==
    { [path |-> Text(<<"/", "r">>), endpoint |-> "root", methods |-> {"GET"}],
      [path |-> Text(<<"/", "s">>), endpoint |-> "search", methods |-> {"GET"}] }

ConcEvents ==
    { [httpMethod |-> "GET", path |-> <<"/", "r">>, queryStringParameters |-> EmptyDict,
       headers |-> EmptyDict, body |-> NoBody],
      [httpMethod |-> "GET", path |-> <<"/", "s">>, queryStringParameters |-> EmptyDict,
       headers |-> EmptyDict, body |-> NoBody],
      [httpMethod |-> "GET", path |-> <<"/", "s">>,
       queryStringParameters |-> "q" :> StrV(<<"1">>),
       headers |-> "X-Token" :> StrV(<<"t">>), body |-> NoBody] }

NextConc ==
    \/ \E d \in ConcDecls : add_route(d.path, d.endpoint, d.methods)
    \/ \E r \in Slots : \E event \in ConcEvents : app_call(r, event)
    \/ \E r \in Slots : Handle(r)

SpecConc == Init /\ [][NextConc]_vars

\* Every callable of the tree computes its result from its arguments alone
\* and never raises.
Deterministic(tree) ==
    \A p \in Positions(tree) :
        /\ NodeAt(tree, p).call \notin CounterCallables
        /\ Callables[NodeAt(tree, p).call].raises = {}

(***************************************************************************)
(* C8.  The dependency cache belongs to one request: a value served from   *)
(* the cache was computed earlier in the same request, the cache holds     *)
(* only values computed in its own request, a use_cache=True dependency    *)
(* required at several places is invoked once in each request whose        *)
(* resolution finishes, also while another request is in flight, and two   *)
(* requests with the same event through the same route get the same        *)
(* response when the callables are deterministic.                          *)
(***************************************************************************)
C8_CacheRequestScoped ==
    /\ \A r \in Matched :
          LET rq == req[r]
              tree == TreeOf(rq)
              Computed(key, value) ==
                  \E j \in 1..Len(rq.log) :
                      /\ rq.log[j].ev \in {"call", "enter"}
                      /\ NodeAt(tree, rq.log[j].at).cache_key = key
                      /\ rq.log[j].value = value
          IN /\ \A k \in 1..Len(rq.log) :
                   rq.log[k].ev = "hit" =>
                      \E j \in 1..(k - 1) :
                          /\ rq.log[j].ev \in {"call", "enter"}
                          /\ NodeAt(tree, rq.log[j].at).cache_key
                                = NodeAt(tree, rq.log[k].at).cache_key
                          /\ rq.log[j].value = rq.log[k].value
             /\ \A key \in DOMAIN rq.cache : Computed(key, rq.cache[key])
             /\ \A p \in Dependencies(tree) :
                   LET sites == SitesOf(tree, NodeAt(tree, p).cache_key, TRUE)
                   IN (p \in sites /\ ResolutionFinished(rq)
                          /\ \A s \in sites : LogIdx(rq, {"skip"}, s) = {}) =>
                         Cardinality(UNION {Invocations(rq, s) : s \in sites}) = 1
    /\ \A r1, r2 \in Matched :
          (/\ req[r1].pc = "done" /\ req[r2].pc = "done"
           /\ req[r1].event = req[r2].event
           /\ req[r1].route = req[r2].route
           /\ Deterministic(TreeOf(req[r1])))
             => req[r1].response = req[r2].response

\* Two requests for the route "root" were in flight together and both have
\* ended: each called get_value itself, so they hold different counts.
C8_Witness ==
    /\ req[1].pc = "done" /\ req[2].pc = "done"
    /\ req[1].route # 0 /\ req[2].route # 0
    /\ routes[req[1].route].endpoint = "root"
    /\ routes[req[2].route].endpoint = "root"
    /\ Invocations(req[1], <<1, 1>>) # {}
    /\ Invocations(req[2], <<1, 1>>) # {}
    /\ LogIdx(req[1], {"hit"}, <<2, 1>>) # {}
    /\ LogIdx(req[2], {"hit"}, <<2, 1>>) # {}
    /\ \E k \in Invocations(req[1], <<1, 1>>) : req[1].log[k].value.n = 2
    /\ \E k \in Invocations(req[2], <<1, 1>>) : req[2].log[k].value.n = 1

(***************************************************************************)
(* C11.  When a request is dispatched and no registered route has both a   *)
(* matching method and a matching path, also when its path matches routes  *)
(* registered for other methods only, the router returns a response of     *)
(* status 404 with detail "Not Found" without raising, and no dependency   *)
(* or endpoint is invoked for the request.                                 *)
(***************************************************************************)
C11_NotFoundIsNormalResponse ==
    /\ [][\A r \in Slots :
            (/\ req'[r].serial # req[r].serial
             /\ \A j \in 1..Len(routes) :
                   ~Route_matches(routes[j], Request_method(req'[r].event),
                                  req'[r].event.path).matched)
               => /\ req'[r].pc = "done"
                  /\ req'[r].route = 0
                  /\ ~req'[r].pending.raised
                  /\ req'[r].response.status_code = 404
                  /\ req'[r].response.content = DetailText("Not Found")
                  /\ req'[r].log = <<>>
                  /\ counters' = counters]_vars
    /\ [](\A r \in Slots :
            (req[r].serial # 0 /\ req[r].route = 0) =>
               /\ req[r].pc = "done"
               /\ req[r].log = <<>>
               /\ req[r].exit_stack = <<>>
               /\ ~req[r].pending.raised
               /\ req[r].response = JSONResponse(DetailText("Not Found"), 404))

\* A request answered 404 although the pattern of a registered route
\* matches its path: the route is registered for another method.
C11_Witness ==
    \E r \in Slots :
        /\ req[r].pc = "done"
        /\ req[r].serial # 0
        /\ req[r].route = 0
        /\ req[r].response.status_code = 404
        /\ \E j \in 1..Len(routes) :
              /\ RegexMatch(routes[j].path_regex, req[r].event.path).matched
              /\ Request_method(req[r].event) \notin routes[j].methods

\* The routes whose pattern ends in an int-converted segment, and the
\* characters of a path that the segment stands for.
EndsInIntSegment(route) ==
    /\ route.path # <<>>
    /\ route.path[Len(route.path)].t = "param"
    /\ ConvertorType(route.path[Len(route.path)]) = "int"
    /\ \A i \in 1..(Len(route.path) - 1) : route.path[i].t = "lit"

LastSegment(route, path) == Drop(path, Len(route.path) - 1)

(***************************************************************************)
(* C12.  A route whose path ends in an int-converted segment handles a     *)
(* request only when that segment of the request path is one or more       *)
(* digits.                                                                 *)
(***************************************************************************)
C12_IntSegmentOnlyDigits ==
    \A r \in Matched :
        EndsInIntSegment(routes[req[r].route]) =>
            LET segment == LastSegment(routes[req[r].route], req[r].event.path)
            IN segment # <<>> /\ \A c \in Range(segment) : c \in Digits

(***************************************************************************)
(* C13.  Registering a route whose path uses a convertor other than str,   *)
(* int or path raises ValueError "Unknown path convertor" naming it and    *)
(* leaves the route list as it was; every route in the list uses known     *)
(* convertors only, and the list changes only by a successful              *)
(* registration appending one route.                                       *)
(***************************************************************************)
C13_UnknownConvertorRejected ==
    /\ [](\A i \in 1..Len(routes) :
            \A k \in 1..Len(routes[i].path) :
               routes[i].path[k].t = "param" =>
                  ConvertorType(routes[i].path[k]) \in {"str", "int", "path"})
    /\ [][/\ registration'.type = "ValueError" =>
                /\ routes' = routes
                /\ registration'.message = "Unknown path convertor"
                /\ registration'.arg \notin {"str", "int", "path"}
          /\ routes' # routes =>
                /\ registration' = NoError
                /\ Len(routes') = Len(routes) + 1
                /\ SubSeq(routes', 1, Len(routes)) = routes]_vars

\* The registration of /i/{item_id:uuid} failed after one route had been
\* registered, and that route is still the only one.
C13_Witness ==
    /\ registration.type = "ValueError"
    /\ registration.arg = "uuid"
    /\ Len(routes) = 1

(***************************************************************************)
(* An app whose endpoints read query and header fields: required and       *)
(* defaulted ones, with and without an alias that differs from the name.   *)
(* The requests leave the fields out, or send them empty, valid or         *)
(* invalid.                                                                *)
(***************************************************************************)
FieldDecls ==
    { [path |-> Text(<<"/", "l">>), endpoint |-> "list_items", methods |-> {"GET"}],
      [path |-> Text(<<"/", "f">>), endpoint |-> "find", methods |-> {"GET"}],
      [path |-> Text(<<"/", "t">>), endpoint |-> "create_items", methods |-> {"POST"}],
      [path |-> Text(<<"/", "h">>), endpoint |-> "traced", methods |-> {"GET"}],
      [path |-> Text(<<"/", "w">>), endpoint |-> "whoami", methods |-> {"GET"}] }

\* A dict with the keys whose value is not None.
Present(d) == [k \in {x \in DOMAIN d : ~IsNone(d[x])} |-> d[k]]

RawStrings == {None, StrV(<<>>), StrV(<<"1">>), StrV(<<"a">>)}

FieldEvents ==
    { [httpMethod |-> "GET", path |-> <<"/", "l">>,
       queryStringParameters |-> Present([q |-> q, limit |-> limit]),
       headers |-> EmptyDict, body |-> NoBody] :
         q \in RawStrings, limit \in {None, StrV(<<"5">>)} }
    \cup
    { [httpMethod |-> "GET", path |-> <<"/", "f">>,
       queryStringParameters |-> Present([t |-> t, term |-> term]),
       headers |-> Present("X-Token" :> x),
       body |-> NoBody] :
         t \in {None, StrV(<<>>), StrV(<<"a">>)},
         term \in {None, StrV(<<"n">>)},
         x \in {None, StrV(<<>>), StrV(<<"k">>)} }
    \cup
    { [httpMethod |-> "POST", path |-> <<"/", "t">>, queryStringParameters |-> EmptyDict,
       headers |-> EmptyDict, body |-> b] :
         b \in {NoBody, InvalidBody, JsonBody(ListV(0, <<"a">>))} }
    \cup
    { [httpMethod |-> "GET", path |-> <<"/", "h">>, queryStringParameters |-> EmptyDict,
       headers |-> h, body |-> NoBody] :
         h \in {EmptyDict, "X-Trace" :> StrV(<<"k">>), "x-trace" :> StrV(<<"k">>),
                "X-TRACE" :> StrV(<<"k">>)} }
    \cup
    { [httpMethod |-> "GET", path |-> <<"/", "w">>, queryStringParameters |-> EmptyDict,
       headers |-> EmptyDict, body |-> NoBody] }

NextFields ==
    \/ \E d \in FieldDecls : add_route(d.path, d.endpoint, d.methods)
    \/ \E event \in FieldEvents : app_call(1, event)
    \/ Handle(1)

SpecFields == Init /\ [][NextFields]_vars

\* The raw source a field of the given location is read from.
SourceOf(rq, in_) ==
    CASE in_ = "path" -> rq.path_params
      [] in_ = "query" -> Request_query_params(rq.event)
      [] in_ = "header" -> Request_headers(rq.event)

\* The path, query and header fields declared by a node.
OwnParams(node) ==
    Range(node.path_params) \cup Range(node.query_params) \cup Range(node.header_params)

\* What resolution made of the fields of the node at a position.
Extracted(rq, p) == OwnFields(NodeAt(TreeOf(rq), p), Frame(p), rq)

ErrorsAt(rq, p, loc) ==
    {k \in 1..Len(Extracted(rq, p).errors) : Extracted(rq, p).errors[k].loc = loc}

(***************************************************************************)
(* C14.  A field whose raw value is absent from its source (under its      *)
(* alias and under its name): when it is required, resolution yields       *)
(* exactly one error for it, of type "missing" and tagged (location,       *)
(* alias), and no value; when it has a default, resolution yields the      *)
(* default (for a field without a default factory, that is the declared    *)
(* value) and no error.  With q and limit both left out, list_items gets   *)
(* exactly one error, for q, and limit = 10.                               *)
(***************************************************************************)
C14_AbsentFieldMissingOrDefault ==
    \A r \in Matched :
        LET rq == req[r]
            tree == TreeOf(rq)
        IN \A p \in Positions(tree) : \A f \in OwnParams(NodeAt(tree, p)) :
              LET source == SourceOf(rq, f.in_)
                  loc == <<f.in_, f.alias>>
                  out == Extracted(rq, p)
              IN (f.alias \notin DOMAIN source /\ f.name \notin DOMAIN source
                    /\ f.default_factory = "") =>
                    IF f.required
                    THEN /\ Cardinality(ErrorsAt(rq, p, loc)) = 1
                         /\ \A k \in ErrorsAt(rq, p, loc) : out.errors[k].type = "missing"
                         /\ f.name \notin DOMAIN out.values
                         /\ ResolutionFinished(rq) =>
                               /\ ValidationFailure(rq)
                               /\ get_missing_field_error(loc) \in Range(ReportedErrors(rq))
                    ELSE /\ ErrorsAt(rq, p, loc) = {}
                         /\ f.name \in DOMAIN out.values
                         /\ out.values[f.name] = f.default
                         /\ \A args \in CallArgs(rq, p) : args[f.name] = f.default

\* list_items was requested without q and without limit: the response
\* carries the one missing error for q, and limit was resolved to 10.
C14_Witness ==
    \E r \in Matched :
        /\ req[r].pc = "done"
        /\ routes[req[r].route].endpoint = "list_items"
        /\ DOMAIN Request_query_params(req[r].event) = {}
        /\ req[r].response.status_code = 422
        /\ req[r].response.content.detail.errors = <<get_missing_field_error(<<"query", "q">>)>>
        /\ Extracted(req[r], <<>>).values = [limit |-> IntV(10)]

(***************************************************************************)
(* C15.  A field whose raw value is present in its source, under its alias *)
(* or under its name, is resolved to what schema validation makes of that  *)
(* value, an empty string included: it is not resolved to the default and  *)
(* not reported as missing.                                                *)
(***************************************************************************)
C15_PresentValueValidated ==
    \A r \in Matched :
        LET rq == req[r]
            tree == TreeOf(rq)
        IN \A p \in Positions(tree) : \A f \in OwnParams(NodeAt(tree, p)) :
              LET source == SourceOf(rq, f.in_)
                  loc == <<f.in_, f.alias>>
                  out == Extracted(rq, p)
                  raw == IF f.alias \in DOMAIN source THEN source[f.alias] ELSE source[f.name]
                  validated == ModelField_validate(f, raw, loc)
              IN (f.alias \in DOMAIN source \/ f.name \in DOMAIN source) =>
                    /\ get_missing_field_error(loc) \notin Range(out.errors)
                    /\ Range(validated.errors) \subseteq Range(out.errors)
                    /\ validated.errors = <<>> =>
                          /\ f.name \in DOMAIN out.values
                          /\ out.values[f.name] = validated.v

(***************************************************************************)
(* C16.  A field with a default factory and no supplied value resolves in  *)
(* every request to a value freshly made for that request: the endpoint is *)
(* handed an empty list although the endpoint of an earlier request has    *)
(* appended to the list it was handed, and no list object is handed out    *)
(* twice.                                                                  *)
(***************************************************************************)
C16_DefaultFactoryFresh ==
    /\ \A r \in Matched :
          LET rq == req[r]
              tree == TreeOf(rq)
          IN \A f \in Range(tree.body_params) :
                (f.default_factory # "" /\ IsNone(rq.body)) =>
                   \A args \in CallArgs(rq, <<>>) :
                      /\ args[f.name].ty = "list"
                      /\ args[f.name].items = <<>>
                      /\ args[f.name].id \in 1..Len(objects)
    /\ \A i \in 1..Len(objects) : Len(objects[i]) <= 1

\* The second request to create_items without a body got an empty list,
\* after the first request's endpoint had appended to its own list.
C16_Witness ==
    \E r \in Matched :
        /\ req[r].pc = "done"
        /\ req[r].serial = 2
        /\ routes[req[r].route].endpoint = "create_items"
        /\ req[r].response.status_code = 200
        /\ IsNone(req[r].body)
        /\ Len(objects) = 2
        /\ objects[1] = <<"x">>
        /\ \A args \in CallArgs(req[r], <<>>) : args["tags"] = ListV(2, <<>>)

(***************************************************************************)
(* Security scopes and mixed caching: endpoints that require one callable  *)
(* under different Security() scopes, at the top level and below a         *)
(* dependency that is itself required with scopes, a security scheme       *)
(* required with scopes, and one callable required with and without        *)
(* use_cache.                                                              *)
(***************************************************************************)
ScopeDecls ==
    { [path |-> P(<<"/", "a">>), endpoint |-> "scoped", methods |-> {"GET"}],
      [path |-> P(<<"/", "e">>), endpoint |-> "same_scopes", methods |-> {"GET"}],
      [path |-> P(<<"/", "n">>), endpoint |-> "nested", methods |-> {"GET"}],
      [path |-> P(<<"/", "k">>), endpoint |-> "secured", methods |-> {"GET"}],
      [path |-> P(<<"/", "x">>), endpoint |-> "mixed", methods |-> {"GET"}] }

ScopeEvents ==
    { [httpMethod |-> "GET", path |-> p, queryStringParameters |-> EmptyDict,
       headers |-> EmptyDict, body |-> NoBody] :
        p \in {<<"/", "a">>, <<"/", "e">>, <<"/", "n">>, <<"/", "k">>, <<"/", "x">>} }

NextScopes ==
    \/ \E d \in ScopeDecls : add_route(d.path, d.endpoint, d.methods)
    \/ \E event \in ScopeEvents : app_call(1, event)
    \/ Handle(1)

SpecScopes == Init /\ [][NextScopes]_vars

\* The Depends()/Security() markers of a callable, in declaration order:
\* the i-th one gives the i-th sub-dependency.
Markers(call) ==
    SelectSeq(Callables[call].params, LAMBDA p : analyze_param(p, FALSE).kind = "depends")

\* The marker by which the node at a position of an endpoint's tree is
\* required.
RECURSIVE MarkerAt(_, _)
MarkerAt(call, p) ==
    IF Len(p) = 1 THEN Markers(call)[p[1]]
    ELSE MarkerAt(Markers(call)[p[1]].dependency, Tail(p))

\* The scopes declared on the markers along the chain from the endpoint to
\* a position.
RECURSIVE ChainScopes(_, _)
ChainScopes(call, p) ==
    IF p = <<>> THEN <<>>
    ELSE Markers(call)[p[1]].scopes \o ChainScopes(Markers(call)[p[1]].dependency, Tail(p))

\* Every sub-dependency under the root activation was resolved to a value.
ResolvedWithoutError(rq) ==
    /\ ResolutionFinished(rq)
    /\ LogIdx(rq, {"skip", "fault", "raise"}, <<>>) = {}
    /\ \A p \in Dependencies(TreeOf(rq)) : LogIdx(rq, {"skip", "fault", "raise"}, p) = {}

(***************************************************************************)
(* C17.  In a built tree two nodes have the same cache key exactly when    *)
(* they have the same callable and the same set of security scopes, and a  *)
(* callable required by one marker with scopes S and by another marker of  *)
(* the same parent with a different set of scopes T has two cache keys and *)
(* is invoked at both places in a request that resolves them.              *)
(***************************************************************************)
C17_CacheKeyIsCallableAndScopeSet ==
    /\ \A i \in 1..Len(routes) :
          LET tree == routes[i].dependant
          IN \A p, q \in Dependencies(tree) :
                (NodeAt(tree, p).cache_key = NodeAt(tree, q).cache_key)
                   <=> /\ NodeAt(tree, p).call = NodeAt(tree, q).call
                       /\ Range(ChainScopes(tree.call, p)) = Range(ChainScopes(tree.call, q))
    /\ \A r \in Matched :
          LET rq == req[r]
              tree == TreeOf(rq)
          IN \A p, q \in Dependencies(tree) :
                ( /\ Take(p, Len(p) - 1) = Take(q, Len(q) - 1)
                  /\ Len(p) = Len(q)
                  /\ NodeAt(tree, p).call = NodeAt(tree, q).call
                  /\ Range(MarkerAt(tree.call, p).scopes) # Range(MarkerAt(tree.call, q).scopes)
                  /\ ResolvedWithoutError(rq) )
                => /\ NodeAt(tree, p).cache_key # NodeAt(tree, q).cache_key
                   /\ Cardinality(Invocations(rq, p)) = 1
                   /\ Cardinality(Invocations(rq, q)) = 1

(***************************************************************************)
(* C18.  In a built tree the security scopes of every node are the scopes  *)
(* declared on the markers along the chain from the endpoint to the node:  *)
(* the scopes of the markers above it and of its own marker, and none that *)
(* is declared only on a sibling branch or below the node.                 *)
(***************************************************************************)
C18_ScopesFollowChain ==
    \A i \in 1..Len(routes) :
        LET tree == routes[i].dependant
        IN \A p \in Dependencies(tree) :
              /\ Range(NodeAt(tree, p).security_scopes) = Range(ChainScopes(tree.call, p))
              /\ NodeAt(tree, p).cache_key[2] = SortedUnique(ChainScopes(tree.call, p))

(***************************************************************************)
(* C19.  In a built tree the Dependant of a security scheme holds a        *)
(* security requirement, and the scopes of that requirement are the scopes *)
(* accumulated down the chain to the node.                                 *)
(***************************************************************************)
C19_RequirementCarriesScopes ==
    \A i \in 1..Len(routes) :
        LET tree == routes[i].dependant
        IN \A p \in Dependencies(tree) :
              Callables[NodeAt(tree, p).call].is_security =>
                 /\ NodeAt(tree, p).security_requirements # <<>>
                 /\ \A k \in 1..Len(NodeAt(tree, p).security_requirements) :
                       NodeAt(tree, p).security_requirements[k].scopes
                          = ChainScopes(tree.call, p)

(***************************************************************************)
(* C20.  Only the result of a use_cache=True occurrence enters the request *)
(* cache: every key of the cache has a use_cache=True place that was       *)
(* invoked, and a place served from the cache is served the result of such *)
(* an invocation.                                                          *)
(***************************************************************************)
C20_OnlyCacheableStored ==
    \A r \in Matched :
        LET rq == req[r]
            tree == TreeOf(rq)
        IN /\ \A key \in DOMAIN rq.cache :
                 \E q \in SitesOf(tree, key, TRUE) : Invocations(rq, q) # {}
           /\ \A p \in Dependencies(tree) :
                 \A h \in LogIdx(rq, {"hit"}, p) :
                    \E q \in SitesOf(tree, NodeAt(tree, p).cache_key, TRUE) :
                       \E k \in Invocations(rq, q) :
                          k < h /\ rq.log[k].value = rq.log[h].value

(***************************************************************************)
(* Body fields: one body field, two on one node, one with embed=True, and  *)
(* one on the endpoint with another on a sub-dependency; the JSON body is  *)
(* a number or a mapping.                                                  *)
(***************************************************************************)
BodyDecls ==
    { [path |-> P(<<"/", "o">>), endpoint |-> "one_body", methods |-> {"POST"}],
      [path |-> P(<<"/", "t">>), endpoint |-> "two_body", methods |-> {"POST"}],
      [path |-> P(<<"/", "e">>), endpoint |-> "embed_body", methods |-> {"POST"}],
      [path |-> P(<<"/", "d">>), endpoint |-> "dep_body", methods |-> {"POST"}] }

Bodies ==
    { NoBody, InvalidBody, JsonBody(IntV(7)),
      JsonBody(DictV("item" :> IntV(1))),
      JsonBody(DictV("item" :> IntV(1) @@ "meta" :> IntV(2))) }

BodyEvents ==
    { [httpMethod |-> "POST", path |-> p, queryStringParameters |-> EmptyDict,
       headers |-> EmptyDict, body |-> b] :
        p \in {<<"/", "o">>, <<"/", "t">>, <<"/", "e">>, <<"/", "d">>}, b \in Bodies }

NextBody ==
    \/ \E d \in BodyDecls : add_route(d.path, d.endpoint, d.methods)
    \/ \E event \in BodyEvents : app_call(1, event)
    \/ Handle(1)

SpecBody == Init /\ [][NextBody]_vars

\* The body fields declared anywhere in a tree.
AllBodyFields(tree) == UNION {Range(NodeAt(tree, p).body_params) : p \in Positions(tree)}

\* The policy decided over all body fields of the endpoint: embedded when
\* there are two or more names or an embed marker.
EmbeddedPolicy(tree) ==
    \/ Cardinality({f.name : f \in AllBodyFields(tree)}) > 1
    \/ \E f \in AllBodyFields(tree) : f.embed

\* What a body field receives under a policy: the raw body, or the value
\* under its alias in the body mapping.
BodyFieldUnder(embedded, field, received_body) ==
    IF embedded
    THEN IF ~IsNone(received_body) /\ received_body.ty # "dict"
         THEN [v |-> None, errors |-> <<get_missing_field_error(<<"body", field.alias>>)>>]
         ELSE validate_value_with_model_field(field,
                  IF IsNone(received_body) THEN None ELSE DictGet(received_body.d, field.alias),
                  <<"body", field.alias>>)
    ELSE validate_value_with_model_field(field, received_body, <<"body">>)

(***************************************************************************)
(* C21.  Whether body fields get the raw body or are looked up by alias in *)
(* the body mapping is decided over all body fields of the endpoint's      *)
(* tree: a callable that was called got, for each of its body fields, the  *)
(* valid value that policy gives the field.                                *)
(***************************************************************************)
C21_BodyPolicyOverWholeTree ==
    \A r \in Matched :
        LET rq == req[r]
            tree == TreeOf(rq)
        IN \A p \in Positions(tree) :
              \A args \in CallArgs(rq, p) :
                 \A f \in Range(NodeAt(tree, p).body_params) :
                    LET expected == BodyFieldUnder(EmbeddedPolicy(tree), f, rq.body)
                    IN /\ expected.errors = <<>>
                       /\ args[f.name] = expected.v

(***************************************************************************)
(* C22.  A parameter that carries a Depends()/Security() marker is a       *)
(* sub-dependency whatever its declared type is, the request type          *)
(* included: the children of every node of a built tree are the callables  *)
(* of its marked parameters, in declaration order, only the parameters     *)
(* without a marker that are declared as the request get the request, and  *)
(* a callable that was called got for each marked parameter the result of  *)
(* the dependency.                                                         *)
(***************************************************************************)
C22_MarkerBeforeRequestType ==
    /\ \A i \in 1..Len(routes) :
          LET tree == routes[i].dependant
          IN \A p \in Positions(tree) :
                LET node == NodeAt(tree, p)
                    marked == SelectSeq(Callables[node.call].params,
                                        LAMBDA x : x.kind = "depends")
                IN /\ Len(node.dependencies) = Len(marked)
                   /\ \A k \in 1..Len(marked) :
                         /\ k <= Len(node.dependencies)
                         /\ node.dependencies[k].call = marked[k].dependency
                         /\ node.dependencies[k].name = marked[k].name
                   /\ node.request_params =
                         {x.name : x \in {y \in Range(Callables[node.call].params) :
                                             y.kind = "request"}}
    /\ \A r \in Matched :
          \A p \in Positions(TreeOf(req[r])) :
             \A args \in CallArgs(req[r], p) :
                \A x \in Range(Callables[NodeAt(TreeOf(req[r]), p).call].params) :
                   x.kind = "depends" =>
                      /\ x.name \in DOMAIN args
                      /\ args[x.name].ty = "result"
                      /\ args[x.name].call = x.dependency

(***************************************************************************)
(* C23.  A path, query or header field is resolved from the value stored   *)
(* under its alias whenever the source has the alias key, and from the     *)
(* value stored under its declared name only when the alias key is absent. *)
(***************************************************************************)
C23_AliasBeforeName ==
    \A r \in Matched :
        LET rq == req[r]
            tree == TreeOf(rq)
        IN \A p \in Positions(tree) : \A f \in OwnParams(NodeAt(tree, p)) :
              LET source == SourceOf(rq, f.in_)
                  loc == <<f.in_, f.alias>>
                  out == Extracted(rq, p)
                  used == IF f.alias \in DOMAIN source THEN source[f.alias] ELSE source[f.name]
                  expected == validate_value_with_model_field(f, used, loc)
              IN (f.alias \in DOMAIN source \/ f.name \in DOMAIN source) =>
                    IF expected.errors = <<>>
                    THEN /\ f.name \in DOMAIN out.values
                         /\ out.values[f.name] = expected.v
                         /\ \A args \in CallArgs(rq, p) : args[f.name] = expected.v
                    ELSE /\ f.name \notin DOMAIN out.values
                         /\ Range(expected.errors) \subseteq Range(out.errors)

(***************************************************************************)
(* C24.  A header field is extracted whenever the request carries a header *)
(* whose name equals the field's alias ignoring letter case, whatever the  *)
(* casing of the incoming name and of the alias: the field is then not     *)
(* reported missing and gets the header's value.                           *)
(***************************************************************************)
C24_HeaderLookupIgnoresCase ==
    \A r \in Matched :
        LET rq == req[r]
            tree == TreeOf(rq)
        IN \A p \in Positions(tree) : \A f \in Range(NodeAt(tree, p).header_params) :
              \A h \in DOMAIN rq.event.headers :
                 (Lower(h) = Lower(f.alias) /\ Truthy(rq.event.headers[h])) =>
                    LET out == Extracted(rq, p)
                    IN /\ get_missing_field_error(<<"header", f.alias>>) \notin Range(out.errors)
                       /\ f.name \in DOMAIN out.values
                       /\ out.values[f.name] = rq.event.headers[h]

(***************************************************************************)
(* Responses: endpoints that return a LambdaResponse, a dict with a field  *)
(* the model does not have, or a dict that lacks a field of the model, on  *)
(* routes with and without response_model (tests/test_routing.py).         *)
(***************************************************************************)
\* class Item(BaseModel): name: str; price: ...
Item ==
    [ty |-> "model_class",
     fields |-> <<Field("name", "response", "name", "str", TRUE, None),
                  Field("price", "response", "price", "int", TRUE, None)>>]

ResponseDecls ==
    { [path |-> P(<<"/", "c">>), endpoint |-> "custom_response", methods |-> {"GET"},
       response_model |-> m] : m \in {None, Item} }
    \cup
    { [path |-> P(<<"/", "i">>), endpoint |-> "widget", methods |-> {"GET"},
       response_model |-> m] : m \in {None, Item} }
    \cup
    { [path |-> P(<<"/", "p">>), endpoint |-> "partial_widget", methods |-> {"GET"},
       response_model |-> Item],
      [path |-> P(<<"/", "m">>), endpoint |-> "me", methods |-> {"GET"},
       response_model |-> None],
      [path |-> P(<<"/", "s">>), endpoint |-> "search", methods |-> {"GET"},
       response_model |-> None] }

ResponseEvents ==
    { [httpMethod |-> "GET", path |-> p, queryStringParameters |-> EmptyDict,
       headers |-> EmptyDict, body |-> NoBody] :
        p \in {<<"/", "c">>, <<"/", "i">>, <<"/", "p">>, <<"/", "m">>, <<"/", "s">>} }

NextResponse ==
    \/ \E d \in ResponseDecls : add_api_route(d.path, d.endpoint, d.methods, d.response_model)
    \/ \E event \in ResponseEvents : app_call(1, event)
    \/ Handle(1)

SpecResponse == Init /\ [][NextResponse]_vars

\* What the endpoint of a finished request returned, if it returned.
Returns(rq) == {rq.log[k].value : k \in {j \in LogIdx(rq, {"endpoint"}, <<>>) :
                                            ~IsNone(rq.log[j].value)}}

(***************************************************************************)
(* C25.  When the endpoint returns a response object, the request ends     *)
(* with that object's status, headers and body, response model or not;     *)
(* otherwise, on a route with a response model, a return value that fits   *)
(* the model gives a 200 whose content has exactly the model's fields with *)
(* the returned values, every other field being dropped.                   *)
(***************************************************************************)
C25_ResponsePassedOrShaped ==
    \A r \in Matched :
        LET rq == req[r]
            route == routes[rq.route]
        IN rq.pc = "done" =>
              \A result \in Returns(rq) :
                 IF result.ty = "response"
                 THEN rq.response = result.response
                 ELSE (~IsNone(route.response_model) /\ result.ty = "dict"
                         /\ \A f \in Range(route.response_field.model_fields) :
                               f.name \in DOMAIN result.d)
                      => /\ rq.response.status_code = 200
                         /\ rq.response.content.ty = "dict"
                         /\ DOMAIN rq.response.content.d =
                               {f.name : f \in Range(route.response_field.model_fields)}
                         /\ \A k \in DOMAIN rq.response.content.d :
                               rq.response.content.d[k] = result.d[k]

\* The route with the Item model whose endpoint returns name, price and
\* internal_id answered 200 with name and price only.
C25_Witness ==
    \E r \in Matched :
        /\ req[r].pc = "done"
        /\ ~IsNone(routes[req[r].route].response_model)
        /\ routes[req[r].route].endpoint = "widget"
        /\ "internal_id" \in DOMAIN (CHOOSE v \in Returns(req[r]) : TRUE).d
        /\ req[r].response.status_code = 200
        /\ req[r].response.content = DictV("name" :> StrV(<<"w">>) @@ "price" :> IntV(9))

(***************************************************************************)
(* Faults, in an application built with or without debug: a synchronous    *)
(* generator and a class required as dependencies, and an endpoint that    *)
(* raises.                                                                 *)
(***************************************************************************)
FaultDecls ==
    { [path |-> P(<<"/", "g">>), endpoint |-> "use_sync_gen", methods |-> {"GET"}],
      [path |-> P(<<"/", "c">>), endpoint |-> "use_class", methods |-> {"GET"}],
      [path |-> P(<<"/", "m">>), endpoint |-> "me", methods |-> {"GET"}] }

FaultEvents ==
    { [httpMethod |-> "GET", path |-> p, queryStringParameters |-> q, headers |-> EmptyDict,
       body |-> NoBody] :
        p \in {<<"/", "g">>, <<"/", "c">>, <<"/", "m">>},
        q \in {EmptyDict, "q" :> StrV(<<"1">>)} }

NextFault ==
    \/ \E d \in FaultDecls : add_route(d.path, d.endpoint, d.methods)
    \/ \E event \in FaultEvents : app_call(1, event)
    \/ Handle(1)

SpecFault == InitDebug /\ [][NextFault]_vars

\* The request ended with status 500.
Faulted(rq) == rq.pc = "done" /\ rq.response.status_code = 500

(***************************************************************************)
(* C26 as stated.  Every response with status 500 is the one generic       *)
(* failure: its body is {"detail": "Internal Server Error"} whatever       *)
(* dependency or exception caused it.                                      *)
(***************************************************************************)
C26_FaultAlwaysGeneric ==
    \A r \in Slots :
        Faulted(req[r]) => req[r].response = error_response(req[r].pending.exc)

(***************************************************************************)
(* C26, amended.  In an application that is not in debug mode every        *)
(* response with status 500 is the one generic failure: its body is        *)
(* {"detail": "Internal Server Error"} and names neither the dependency    *)
(* nor the exception.                                                      *)
(***************************************************************************)
C26_FaultGenericUnlessDebug ==
    \A r \in Slots :
        (Faulted(req[r]) /\ ~debug) =>
            /\ req[r].response = JSONResponse(DetailText("Internal Server Error"), 500)
            /\ req[r].pending.raised

\* Without debug, a request ended with 500 after the dependency sync_gen
\* was found faulty.
C26_Witness ==
    \E r \in Slots :
        /\ ~debug
        /\ Faulted(req[r])
        /\ \E k \in 1..Len(req[r].log) :
              req[r].log[k].ev = "fault" /\ req[r].log[k].call = "sync_gen"

(***************************************************************************)
(* Bodies that are not JSON, on POST, PUT and PATCH: an endpoint without   *)
(* body fields and one with a body field and two dependencies, two events  *)
(* in flight.                                                              *)
(***************************************************************************)
WriteMethods == {"POST", "PUT", "PATCH"}

JsonDecls ==
    { [path |-> P(<<"/", "i">>), endpoint |-> "ping", methods |-> WriteMethods],
      [path |-> P(<<"/", "d">>), endpoint |-> "dep_body", methods |-> WriteMethods] }

JsonEvents ==
    { [httpMethod |-> t.m, path |-> t.p, queryStringParameters |-> EmptyDict,
       headers |-> EmptyDict, body |-> b] :
        t \in { [m |-> "POST", p |-> <<"/", "d">>], [m |-> "PUT", p |-> <<"/", "i">>],
                [m |-> "PATCH", p |-> <<"/", "d">>] },
        b \in {NoBody, InvalidBody} }
    \cup { [httpMethod |-> "POST", path |-> <<"/", "d">>, queryStringParameters |-> EmptyDict,
             headers |-> EmptyDict, body |-> JsonBody(IntV(7))] }

NextJson ==
    \/ \E d \in JsonDecls : add_route(d.path, d.endpoint, d.methods)
    \/ \E r \in Slots : \E event \in JsonEvents : app_call(r, event)
    \/ \E r \in Slots : Handle(r)

SpecJson == Init /\ [][NextJson]_vars

\* The request carries text that json.loads rejects.
NotJson(rq) ==
    /\ rq.pc # "idle"
    /\ Request_method(rq.event) \in WriteMethods
    /\ rq.event.body = InvalidBody

(***************************************************************************)
(* C27.  A POST, PUT or PATCH request whose body is not valid JSON is      *)
(* handled as if the body were absent: resolution runs with a null body,   *)
(* the request never ends with a fault, on a route without body fields it  *)
(* ends with 200, and it ends with the response the same request without   *)
(* a body gets from the same route.                                        *)
(***************************************************************************)
C27_InvalidJsonIsAbsentBody ==
    \A r \in Slots :
        LET rq == req[r]
        IN NotJson(rq) =>
              /\ IsNone(rq.body)
              /\ rq.pc = "done" => rq.response.status_code # 500
              /\ (rq.pc = "done" /\ rq.route # 0 /\ AllBodyFields(TreeOf(rq)) = {}) =>
                    rq.response.status_code = 200
              /\ \A r2 \in Slots :
                    ( /\ rq.pc = "done"
                      /\ req[r2].pc = "done"
                      /\ req[r2].event = [rq.event EXCEPT !.body = NoBody]
                      /\ req[r2].route = rq.route ) =>
                        req[r2].response = rq.response

\* A PUT with text that is not JSON ended with 200 on the route of ping,
\* which declares no body field.
C27_Witness ==
    \E r \in Slots :
        /\ NotJson(req[r])
        /\ req[r].pc = "done"
        /\ req[r].event.httpMethod = "PUT"
        /\ req[r].route # 0
        /\ routes[req[r].route].endpoint = "ping"
        /\ req[r].response.status_code = 200

(***************************************************************************)
(* The app of the security tests: an endpoint behind HTTPBearer(), between *)
(* a database session and a counted dependency, and an endpoint behind a   *)
(* dependency that may answer 304.                                         *)
(***************************************************************************)
AuthDecls ==
    { [path |-> P(<<"/", "p">>), endpoint |-> "protected", methods |-> {"GET"}],
      [path |-> P(<<"/", "n">>), endpoint |-> "conditional", methods |-> {"GET"}] }

AuthEvents ==
    { [httpMethod |-> "GET", path |-> p, queryStringParameters |-> EmptyDict, headers |-> h,
       body |-> NoBody] :
        p \in {<<"/", "p">>, <<"/", "n">>},
        h \in {EmptyDict,
               "Authorization" :> StrV(<<"Bearer">>),
               "Authorization" :> StrV(<<"Bearer", " ", "t">>),
               "authorization" :> StrV(<<"bearer", " ", "t">>),
               "Authorization" :> StrV(<<"Basic", " ", "t">>)} }

NextAuth ==
    \/ \E d \in AuthDecls : add_route(d.path, d.endpoint, d.methods)
    \/ \E event \in AuthEvents : app_call(1, event)
    \/ Handle(1)

SpecAuth == Init /\ [][NextAuth]_vars

\* The positions of the log where a dependency raised HTTPException.
HttpRaises(rq) ==
    {k \in 1..Len(rq.log) :
        rq.log[k].ev = "raise" /\ rq.pending.raised /\ rq.pending.exc.type = "HTTPException"}

\* After position k of the log nothing was called: the entries are the
\* teardowns of the generators entered before.
NothingInvokedAfter(rq, k) ==
    \A j \in (k + 1)..Len(rq.log) : rq.log[j].ev = "teardown"

MiddlewareDecls ==
    { [path |-> P(<<"/", "i">>), endpoint |-> "ping", methods |-> {"GET"}],
      [path |-> P(<<"/", "g">>), endpoint |-> "get_item", methods |-> {"GET"}],
      [path |-> P(<<"/", "m">>), endpoint |-> "me", methods |-> {"GET"}] }

MiddlewareEvents ==
    { [httpMethod |-> "GET", path |-> p, queryStringParameters |-> EmptyDict, headers |-> h,
       body |-> NoBody] :
        p \in {<<"/", "i">>, <<"/", "g">>, <<"/", "m">>, <<"/", "x">>},
        h \in {EmptyDict, "Authorization" :> StrV(<<"Bearer", " ", "t">>)} }

NextMiddleware ==
    \/ \E m \in UserMiddleware : add_middleware(m)
    \/ \E d \in MiddlewareDecls : add_route(d.path, d.endpoint, d.methods)
    \/ \E event \in MiddlewareEvents : app_call(1, event)
    \/ Handle(1)

SpecMiddleware == Init /\ [][NextMiddleware]_vars

\* The user layers whose pre-processing, or post-processing, a request ran,
\* in the order they ran.
Ran(rq, ev) ==
    LET entries == SelectSeq(rq.log, LAMBDA e : e.ev = ev)
    IN [k \in 1..Len(entries) |-> entries[k].call]

\* The order in which the user layers of the application built now would
\* be entered.
EntryOrder(middleware) == UserLayers(build_middleware_stack(middleware))

\* No user layer answered the request itself.
PassedOn(rq) == \A k \in 1..Len(rq.log) : ~Blocks(rq.log[k].call, rq.event)

Reversed(seq) == [k \in 1..Len(seq) |-> seq[Len(seq) + 1 - k]]

(***************************************************************************)
(* C29 as stated.  The middleware added first is the outermost and the one *)
(* added last the innermost: every add_middleware call puts the new layer  *)
(* after the layers added before in the order of entry, a request that     *)
(* every layer passes on runs the pre-processing of the layers in that     *)
(* order before anything of the route, and the post-processing in the      *)
(* reverse order after it.                                                 *)
(***************************************************************************)
C29_FirstAddedOutermost ==
    /\ [][user_middleware' # user_middleware =>
             \E m \in UserMiddleware :
                 EntryOrder(user_middleware') = Append(EntryOrder(user_middleware), m)]_vars
    /\ [](\A r \in Slots :
             (req[r].pc = "done" /\ PassedOn(req[r])) =>
                 /\ Ran(req[r], "pre") = EntryOrder(user_middleware)
                 /\ Ran(req[r], "post") = Reversed(EntryOrder(user_middleware)))

ShortCircuitAt(layers, event) ==
    LET blocking == {k \in 1..Len(layers) : Blocks(layers[k], event)}
    IN IF blocking = {} THEN 0 ELSE CHOOSE k \in blocking : \A j \in blocking : k <= j

(***************************************************************************)
(* C31.  When a user layer answers without calling call_next, nothing      *)
(* inside it runs: no inner layer is entered and the log of the request    *)
(* holds no extraction, no call of a dependency, no call of the endpoint   *)
(* and no teardown; the layers outside it run their post-processing, in    *)
(* reverse order, and the response is the one the layer gave.              *)
(***************************************************************************)
C31_ShortCircuitSkipsInside ==
    \A r \in Slots :
        LET rq == req[r]
            layers == UserLayers(middleware_stack)
            at == ShortCircuitAt(layers, rq.event)
        IN (rq.pc # "idle" /\ at # 0) =>
              /\ rq.pc = "done"
              /\ Ran(rq, "pre") = SubSeq(layers, 1, at)
              /\ Ran(rq, "post") = Reversed(SubSeq(layers, 1, at - 1))
              /\ \A k \in 1..Len(rq.log) : rq.log[k].ev \in {"pre", "post"}
              /\ rq.route = 0
              /\ rq.response = JSONResponse(DetailText("Unauthorized"), 401)

\* AuthMiddleware, inside LoggingMiddleware, answered a request for the
\* route of me: LoggingMiddleware ran before and after it and nothing of
\* the route ran.
C31_Witness ==
    /\ middleware_stack.built
    /\ UserLayers(middleware_stack) = <<"LoggingMiddleware", "AuthMiddleware">>
    /\ \E r \in Slots :
          /\ req[r].pc = "done"
          /\ req[r].event.path = <<"/", "m">>
          /\ RouteIndex(routes, "GET", req[r].event.path) # 0
          /\ req[r].response.status_code = 401
          /\ req[r].log = << LogEntry("pre", <<>>, "LoggingMiddleware", None),
                             LogEntry("pre", <<>>, "AuthMiddleware", None),
                             LogEntry("post", <<>>, "LoggingMiddleware", None) >>

(***************************************************************************)
(* C32.  The middleware stack is built on the first request, from the user *)
(* layers of that moment, and never again: it is not built before the      *)
(* first event, every later event leaves it as it is, and every request    *)
(* enters the layers of the built stack.  Once it is built, add_middleware *)
(* raises RuntimeError ('Cannot add middleware after an application has    *)
(* started') and leaves the user layers and the stack unchanged.           *)
(***************************************************************************)
C32_StackBuiltOnce ==
    /\ [](/\ middleware_stack.built <=> nreq > 0
          /\ middleware_stack.built =>
                middleware_stack = build_middleware_stack(user_middleware))
    /\ [][/\ (~middleware_stack.built /\ nreq' # nreq) =>
                middleware_stack' = build_middleware_stack(user_middleware)
          /\ middleware_stack.built =>
                /\ middleware_stack' = middleware_stack
                /\ user_middleware' = user_middleware
                /\ (\E m \in UserMiddleware : add_middleware(m)) =>
                      registration' = [type |-> "RuntimeError",
                                       message |-> "Cannot add middleware after an application has started",
                                       arg |-> ""]
          /\ \A r \in Slots :
                req'[r].serial # req[r].serial =>
                    SelectSeq(req'[r].log, LAMBDA e : e.ev = "pre") =
                        PreProcessing(UserLayers(middleware_stack), req'[r].event)
                    \/ ~middleware_stack.built]_vars

\* After two events handled through the stack built from one user layer,
\* add_middleware raised RuntimeError: the layer is still the only one.
C32_Witness ==
    /\ nreq = 2
    /\ registration.type = "RuntimeError"
    /\ Len(user_middleware) = 1
    /\ middleware_stack.layers =
          user_middleware \o <<"ServerErrorMiddleware", "ExceptionMiddleware">>
    /\ \E r \in Slots : req[r].pc = "done" /\ Ran(req[r], "pre") = user_middleware

(***************************************************************************)
(* An application whose user middleware may hold a layer that raises.      *)
(***************************************************************************)
NextFaulty ==
    \/ \E m \in {"LoggingMiddleware", "FaultyMiddleware"} : add_middleware(m)
    \/ \E d \in MiddlewareDecls : add_route(d.path, d.endpoint, d.methods)
    \/ \E event \in MiddlewareEvents : app_call(1, event)
    \/ Handle(1)

SpecFaulty == Init /\ [][NextFaulty]_vars

\* FastAPI.__call__ returned no response for the event: an exception left
\* the handler.
HandlerRaised(rq) == rq.pc = "done" /\ rq.response = NoResponse

(***************************************************************************)
(* C33.  ServerErrorMiddleware is the outermost layer of the built stack;  *)
(* the handler returns a response for every event and never raises, and    *)
(* the response has status 500 when an exception that no handler knows     *)
(* was raised, a user layer's included.                                    *)
(***************************************************************************)
C33_ServerErrorOutermost ==
    /\ middleware_stack.built => middleware_stack.layers[1] = "ServerErrorMiddleware"
    /\ \A r \in Slots :
          req[r].pc = "done" =>
              /\ ~HandlerRaised(req[r])
              /\ (req[r].pending.raised /\ req[r].pending.exc.type = "Exception") =>
                    req[r].response.status_code = 500

\* The response an exception that left the route ends in.
ErrorStatus(exc) ==
    CASE exc.type = "RequestValidationError" -> 422
      [] exc.type = "HTTPException" -> exc.detail.status_code
      [] OTHER -> 500

Generators(rq, ev) ==
    LET entries == SelectSeq(rq.log, LAMBDA e : e.ev = ev)
    IN [k \in 1..Len(entries) |-> <<entries[k].call, entries[k].at>>]

(***************************************************************************)
(* C35.  The cleanup-bearing dependencies a request entered are torn down  *)
(* in the reverse of the order in which they were entered: at every moment *)
(* the teardowns made so far are those of the generators entered last,     *)
(* last first, and when the request has ended every generator it entered   *)
(* has been torn down, whether the endpoint returned or something raised.  *)
(***************************************************************************)
C35_TeardownReversesEntry ==
    \A r \in Slots :
        LET entered == Generators(req[r], "enter")
            torn == Generators(req[r], "teardown")
            n == Len(entered)
        IN /\ Len(torn) <= n
           /\ torn = [k \in 1..Len(torn) |-> entered[n + 1 - k]]
           /\ req[r].pc = "done" => Len(torn) = n
           /\ Len(torn) > 0 => req[r].pc \in {"exit", "done"}

\* Three generators were entered and torn down in reverse order on a
\* request whose endpoint raised.
C35_Witness ==
    \E r \in Slots :
        /\ req[r].pc = "done"
        /\ req[r].pending.raised
        /\ req[r].response.status_code = 500
        /\ Len(Generators(req[r], "enter")) = 3
        /\ Generators(req[r], "teardown") = Reversed(Generators(req[r], "enter"))
        /\ Generators(req[r], "enter")[1] # Generators(req[r], "enter")[3]

(***************************************************************************)
(* Cached dependencies with something below them: common, required twice   *)
(* by search, declares a query field; session, required twice by twice,    *)
(* requires get_db with use_cache=False.                                   *)
(***************************************************************************)
CacheDecls ==
    { [path |-> P(<<"/", "s">>), endpoint |-> "search", methods |-> {"GET"}],
      [path |-> P(<<"/", "t">>), endpoint |-> "twice", methods |-> {"GET"}] }

CacheEvents ==
    { [httpMethod |-> "GET", path |-> p, queryStringParameters |-> q, headers |-> h,
       body |-> NoBody] :
        p \in {<<"/", "s">>, <<"/", "t">>},
        q \in {EmptyDict, "q" :> StrV(<<"1">>)},
        h \in {EmptyDict, "X-Token" :> StrV(<<"t">>)} }

NextCache ==
    \/ \E d \in CacheDecls : add_route(d.path, d.endpoint, d.methods)
    \/ \E event \in CacheEvents : app_call(1, event)
    \/ Handle(1)

SpecCache == Init /\ [][NextCache]_vars

(***************************************************************************)
(* C36.  When an occurrence of a use_cache=True dependant is served from   *)
(* the request cache, nothing happened for that occurrence but the hit: no *)
(* callable of its subtree was called or entered for it and no field of    *)
(* its subtree was extracted for it.                                       *)
(***************************************************************************)
C36_CacheHitCostsNothing ==
    \A r \in Matched :
        LET rq == req[r]
            tree == TreeOf(rq)
        IN \A p \in Dependencies(tree) :
              LogIdx(rq, {"hit"}, p) # {} =>
                  \A q \in Positions(tree) :
                      IsUnder(q, p) => LogIdx(rq, {"call", "enter", "extract"}, q) = {}

\* The request has a response.
Responded(rq) == rq.response # NoResponse

C38_CacheKeyMatchesScopes ==
    /\ [](\A i \in 1..Len(routes) :
             LET tree == routes[i].dependant
             IN \A p \in Dependencies(tree) \cup {<<>>} :
                   NodeAt(tree, p).cache_key =
                       CacheKey(NodeAt(tree, p).call, NodeAt(tree, p).security_scopes))
    /\ [][\A i \in 1..Len(routes) : routes'[i].dependant = routes[i].dependant]_vars

(***************************************************************************)
(* Bodies on methods that do not carry one: an endpoint with an optional   *)
(* body field and one with a required body field, a dependency with a      *)
(* required body field and a generator, each registered for GET, DELETE    *)
(* and POST; two events in flight.                                         *)
(***************************************************************************)
MethodDecls ==
    { [path |-> P(<<"/", "o">>), endpoint |-> "opt_body", methods |-> {"GET", "DELETE", "POST"}],
      [path |-> P(<<"/", "d">>), endpoint |-> "dep_body", methods |-> {"GET", "DELETE", "POST"}] }

MethodEvents ==
    { [httpMethod |-> t.m, path |-> t.p, queryStringParameters |-> EmptyDict,
       headers |-> EmptyDict, body |-> t.b] :
        t \in { [m |-> "GET", p |-> <<"/", "o">>, b |-> NoBody],
                [m |-> "GET", p |-> <<"/", "o">>, b |-> JsonBody(IntV(7))],
                [m |-> "GET", p |-> <<"/", "o">>, b |-> InvalidBody],
                [m |-> "DELETE", p |-> <<"/", "d">>, b |-> NoBody],
                [m |-> "DELETE", p |-> <<"/", "d">>, b |-> JsonBody(IntV(7))],
                [m |-> "POST", p |-> <<"/", "o">>, b |-> JsonBody(IntV(7))],
                [m |-> "POST", p |-> <<"/", "d">>, b |-> JsonBody(IntV(7))] } }

NextMethods ==
    \/ \E d \in MethodDecls : add_route(d.path, d.endpoint, d.methods)
    \/ \E r \in Slots : \E event \in MethodEvents : app_call(r, event)
    \/ \E r \in Slots : Handle(r)

SpecMethods == Init /\ [][NextMethods]_vars

\* Some node of the tree has body fields that an absent body does not
\* satisfy.
AbsentBodyFails(tree) ==
    \E p \in Positions(tree) :
        /\ NodeAt(tree, p).body_params # <<>>
        /\ extract_body_params(NodeAt(tree, p).body_params, None).errors # <<>>

(***************************************************************************)
(* C39.  The body of the event is parsed and offered to the extraction of  *)
(* body fields only when the method is POST, PUT or PATCH.  For any other  *)
(* method resolution runs with an absent body: the request ends with 422   *)
(* when a body field of the tree is required and with 200 and the defaults *)
(* otherwise, and with the response the same request without a body gets,  *)
(* whatever the body of the event is.  A POST with a JSON body resolves    *)
(* against the parsed value.                                               *)
(***************************************************************************)
C39_BodyOnlyForWriteMethods ==
    \A r \in Matched :
        LET rq == req[r]
            tree == TreeOf(rq)
        IN /\ Request_method(rq.event) \notin WriteMethods =>
                 /\ IsNone(rq.body)
                 /\ rq.pc = "done" =>
                       /\ rq.response.status_code = IF AbsentBodyFails(tree) THEN 422 ELSE 200
                       /\ \A r2 \in Matched :
                             ( /\ req[r2].pc = "done"
                               /\ req[r2].route = rq.route
                               /\ req[r2].event = [rq.event EXCEPT !.body = NoBody] ) =>
                                 req[r2].response = rq.response
           /\ (Request_method(rq.event) \in WriteMethods /\ rq.event.body.text = "json") =>
                 /\ rq.body = rq.event.body.json
                 /\ rq.pc = "done" => rq.response.status_code = 200

\* A GET with the JSON body 7 ended with 200 on the route of opt_body, whose
\* endpoint was called with the default of its body field, while a POST
\* with the same body was served with the value 7.
C39_Witness ==
    \E r, r2 \in Matched :
        /\ req[r].pc = "done"
        /\ req[r].event.httpMethod = "GET"
        /\ req[r].event.body = JsonBody(IntV(7))
        /\ routes[req[r].route].endpoint = "opt_body"
        /\ req[r].response.status_code = 200
        /\ req[r].endpoint_values["item"] = IntV(0)
        /\ req[r2].pc = "done"
        /\ req[r2].event.httpMethod = "POST"
        /\ req[r2].route = req[r].route
        /\ req[r2].endpoint_values["item"] = IntV(7)

(***************************************************************************)
(* Termination.  The Lambda handler runs one dispatch to completion on its *)
(* event loop: as long as the dispatch has a next step, the step is taken. *)
(***************************************************************************)
LiveDecls ==
    { [path |-> P(<<"/", "s">>), endpoint |-> "search", methods |-> {"GET"}],
      [path |-> P(<<"/", "m">>), endpoint |-> "me", methods |-> {"GET"}] }

LiveEvents ==
    { [httpMethod |-> "GET", path |-> <<"/", "s">>, queryStringParameters |-> q, headers |-> h,
       body |-> NoBody] :
        q \in {"q" :> StrV(<<"1">>)},
        h \in {EmptyDict, "X-Token" :> StrV(<<"t">>)} }
    \cup { [httpMethod |-> "GET", path |-> p, queryStringParameters |-> EmptyDict,
             headers |-> EmptyDict, body |-> NoBody] : p \in {<<"/", "m">>} }

NextLive ==
    \/ \E d \in LiveDecls : add_route(d.path, d.endpoint, d.methods)
    \/ \E event \in LiveEvents : app_call(1, event)
    \/ Handle(1)

SpecLive == Init /\ [][NextLive]_vars /\ WF_vars(Handle(1))

\* The terminal outcomes of a dispatch.
NotFoundOutcome(rq) == rq.route = 0 /\ rq.pending = NotFound /\ rq.response.status_code = 404

Serialized(rq) == rq.route # 0 /\ ~rq.pending.raised /\ rq.response = rq.pending.response

Failed(rq) ==
    /\ rq.route # 0
    /\ rq.pending.raised
    /\ rq.pending.exc.type = "RequestValidationError"
    /\ rq.response.status_code = 422

HttpError(rq) ==
    /\ rq.route # 0
    /\ rq.pending.raised
    /\ rq.pending.exc.type = "HTTPException"
    /\ rq.response.status_code = rq.pending.exc.detail.status_code

FaultedOutcome(rq) ==
    /\ rq.route # 0
    /\ rq.pending.raised
    /\ rq.pending.exc.type \notin {"RequestValidationError", "HTTPException"}
    /\ rq.response.status_code = 500

TerminalOutcomes(rq) ==
    {o \in {"not_found", "serialized", "failed", "http_error", "faulted"} :
        CASE o = "not_found" -> NotFoundOutcome(rq)
          [] o = "serialized" -> Serialized(rq)
          [] o = "failed" -> Failed(rq)
          [] o = "http_error" -> HttpError(rq)
          [] OTHER -> FaultedOutcome(rq)}

\* Post-order with children in declaration order: p is below q, or p is in
\* an earlier branch than q.
PostOrderBefore(p, q) ==
    \/ Len(q) < Len(p) /\ Take(p, Len(q)) = q
    \/ \E j \in 1..Len(p) :
          /\ j <= Len(q)
          /\ Take(p, j - 1) = Take(q, j - 1)
          /\ p[j] < q[j]

\* Resolution visits each occurrence of the tree at most once, all of them
\* when it is not cut short by an exception, children in declaration order
\* and before the fields of their parent.
DepthFirstOnce(rq) ==
    LET tree == TreeOf(rq)
        visit(p) == LogIdx(rq, {"extract"}, p)
    IN /\ \A p \in Positions(tree) : Cardinality(visit(p)) <= 1
       /\ ResolutionFinished(rq) => \A p \in Positions(tree) : Cardinality(visit(p)) = 1
       /\ \A p, q \in Positions(tree) :
             \A k1 \in visit(p), k2 \in visit(q) : PostOrderBefore(p, q) => k1 < k2
       /\ \A q \in Positions(tree) :
             visit(q) # {} =>
                \A p \in Positions(tree) : PostOrderBefore(p, q) => visit(p) # {}

\* Every dispatch in flight is eventually done.
EveryDispatchEnds == (req[1].pc \in {"solving", "endpoint", "exit"}) ~> (req[1].pc = "done")

(***************************************************************************)
(* C40 as stated.  Every dispatch eventually reaches exactly one of the    *)
(* terminal outcomes not-found response, Serialized, Failed and Faulted,   *)
(* and resolution walks the tree depth-first, children in declaration      *)
(* order before the node's own fields, each occurrence once.               *)
(***************************************************************************)
C40_FourOutcomes ==
    /\ EveryDispatchEnds
    /\ [](\A r \in Slots :
             /\ req[r].pc = "done" =>
                   /\ Cardinality(TerminalOutcomes(req[r])) = 1
                   /\ "http_error" \notin TerminalOutcomes(req[r])
             /\ req[r].route # 0 => DepthFirstOnce(req[r]))

(***************************************************************************)
(* C40.  Every dispatch eventually reaches exactly one terminal outcome:   *)
(* the not-found response, Serialized, Failed, Faulted, or the response of *)
(* an HTTPException raised by a dependency or the endpoint; resolution     *)
(* walks the tree depth-first, children in declaration order before the    *)
(* node's own fields, each occurrence once.                                *)
(***************************************************************************)
C40_DispatchTerminates ==
    /\ EveryDispatchEnds
    /\ [](\A r \in Slots :
             /\ req[r].pc = "done" => Cardinality(TerminalOutcomes(req[r])) = 1
             /\ req[r].pc # "done" => req[r].response = NoResponse
             /\ req[r].route # 0 => DepthFirstOnce(req[r]))

\* The route of search was served: its four occurrences were visited in
\* post-order and the dispatch ended Serialized.
C40_Witness ==
    /\ req[1].pc = "done"
    /\ req[1].route # 0
    /\ routes[req[1].route].endpoint = "search"
    /\ TerminalOutcomes(req[1]) = {"serialized"}
    /\ SelectSeq(req[1].log, LAMBDA e : e.ev = "extract") =
          [k \in 1..4 |-> LogEntry("extract", <<<<1>>, <<2>>, <<3>>, <<>>>>[k],
                                   <<"common", "get_db", "common", "search">>[k], None)]
    /\ \A p \in {<<1>>, <<2>>, <<3>>, <<>>} : Cardinality(LogIdx(req[1], {"extract"}, p)) = 1

=============================================================================
